---- MODULE Spec2Model ----
(***************************************************************************)
(* A model of the fledger double-entry ledger engine (Book and Entry of    *)
(* src/unnamed/part_000 over the tables of src/models.js).                 *)
(*                                                                         *)
(* Representation.                                                         *)
(*   - A JavaScript string is a sequence of one-character strings, so that *)
(*     split(':'), join(':'), the name regex and startsWith are computed   *)
(*     and not assumed.  <<>> is the empty string ''.                      *)
(*   - A table is a sequence of rows; a row's id is its index (the serial  *)
(*     primary key the store assigns at insert).  NullId stands for null.  *)
(*   - A bignumber.js value is an exact rational <<n, d>> in lowest terms  *)
(*     with d > 0; NaN is the BigNumber NaN; NoRate is null / undefined.   *)
(*     bignumber.js rounds a quotient to 20 decimal places, an error of at *)
(*     most 5 * 10^-21 a line; with the amounts and rates of this model    *)
(*     two sums that differ at all differ by far more than NEAR_ZERO       *)
(*     (10^-10), so the rounding never decides a comparison made here.     *)
(***************************************************************************)
EXTENDS Integers, Sequences, FiniteSets, TLC

VARIABLES
    currencies,     \* table currencies:   rows [code, exchangeRate]
    accounts,       \* table accounts:     rows [name, fullName, parentId, currencyId]
    journals,       \* table journalEntries: the number of rows (a row has no field but its id)
    transactions,   \* table transactions: rows [amount, credit, accountId, journalId, exchangeRate]
    balances,       \* table balances:     rows [accountId, transactionId, amount]
    entries,        \* the Entry objects (drafts) the callers hold
    calls,          \* the commit() invocations: position and locals of each
    ret             \* what the last finished call of the public API returned or threw

vars == <<currencies, accounts, journals, transactions, balances, entries, calls, ret>>

store == <<currencies, accounts, journals, transactions, balances>>

-----------------------------------------------------------------------------
(* Bounds of the model *)

MaxNameLen == 3      \* characters of a name given to createAccount
MaxAccounts == 3     \* rows of the accounts table in the chart specification
MaxCurrencies == 2   \* rows of the currencies table in the chart specification
MaxAmount == 2       \* largest amount given to debit and credit
MaxRate == 2         \* largest exchange rate given to debit and credit
MaxLines == 2        \* lines of one entry
MaxJournals == 2     \* entries the caller starts while fewer are persisted
MaxCommits == 2      \* commit() calls on one Entry object

-----------------------------------------------------------------------------
(* Values *)

NullId == 0

NoRate == <<>>

NaN == <<0, 0>>

NoErr == "ok"


Abs(n) == IF n < 0 THEN -n ELSE n

RECURSIVE GCD(_, _)
GCD(a, b) == IF b = 0 THEN a ELSE GCD(b, a % b)

\* the rational n/d in lowest terms, d > 0
Rat(n, d) ==
    LET g == GCD(Abs(n), Abs(d))
        s == IF d < 0 THEN -1 ELSE 1
    IN  <<(s * n) \div g, (s * d) \div g>>

BN(n) == <<n, 1>>

IsNaN(x) == x = NaN

\* BigNumber.plus
Plus(x, y) ==
    IF IsNaN(x) \/ IsNaN(y) THEN NaN
    ELSE Rat(x[1] * y[2] + y[1] * x[2], x[2] * y[2])

\* BigNumber.negated
Negated(x) == IF IsNaN(x) THEN NaN ELSE <<-x[1], x[2]>>

\* BigNumber.minus
Minus(x, y) == Plus(x, Negated(y))

\* BigNumber.div; BN(null) and BN(undefined) are NaN, x/0 is Infinity or NaN
\* (no rate of this model is 0 where a division is made with it)
Div(x, y) ==
    IF y = NoRate \/ IsNaN(x) \/ IsNaN(y) \/ y[1] = 0 THEN NaN
    ELSE Rat(x[1] * y[2], x[2] * y[1])

-----------------------------------------------------------------------------
(* Strings *)

\* the characters the account strings of the model are made of
Chars == {"a", ":"}

\* \w of the name regex: the word characters
WordChars == {"a", "_"}

\* String.prototype.split(':')
RECURSIVE Split(_)
Split(s) ==
    IF s = <<>> THEN << <<>> >>
    ELSE LET rest == Split(Tail(s))
         IN  IF Head(s) = ":" THEN << <<>> >> \o rest
             ELSE << <<Head(s)>> \o Head(rest) >> \o Tail(rest)

\* Array.prototype.join(':')
RECURSIVE Join(_)
Join(segs) ==
    IF segs = <<>> THEN <<>>
    ELSE IF Len(segs) = 1 THEN segs[1]
    ELSE segs[1] \o <<":">> \o Join(Tail(segs))

\* s.startsWith(prefix)
StartsWith(s, prefix) ==
    /\ Len(prefix) <= Len(s)
    /\ SubSeq(s, 1, Len(prefix)) = prefix

\* all strings of at most n characters
RECURSIVE StringsUpTo(_)
StringsUpTo(n) ==
    IF n = 0 THEN {<<>>}
    ELSE LET shorter == StringsUpTo(n - 1)
         IN  shorter \cup {Append(s, c) : s \in shorter, c \in Chars}

-----------------------------------------------------------------------------
(* Chart of accounts: Book._findAccount, _findCurrency, createCurrency,     *)
(* createAccount and the Account model's beforeValidate hook                *)

\* the longest account string createAccount accepts
FULLNAME_MAX == 1024

\* the longest last segment createAccount accepts
NAME_MAX == 255

\* the longest currency code createCurrency accepts
CODE_MAX == 10

Ids(table) == 1 .. Len(table)

\* Book._makeAccountPath: the thrown message, or NoErr ('' is falsy; [].length
\* is never 0 after a split)
MakeAccountPathError(account) ==
    IF account = <<>> THEN "No account provided" ELSE NoErr

\* db.Account.findOne({where: {name, parentId}}): no ORDER BY, so any matching
\* row may be the one returned; the empty set when there is none
FindOneAccount(name, parentId) ==
    {i \in Ids(accounts) : accounts[i].name = name /\ accounts[i].parentId = parentId}

\* the loop of Book._findAccount over the segments left, below parentId: the
\* ids it may return, NullId for "not found" (undefined)
RECURSIVE WalkPath(_, _)
WalkPath(segs, parentId) ==
    LET found == FindOneAccount(Head(segs), parentId)
    IN  IF found = {} THEN {NullId}
        ELSE IF Len(segs) = 1 THEN found
        ELSE UNION {WalkPath(Tail(segs), i) : i \in found}

\* Book._findAccount(account), for an account string that _makeAccountPath accepts
FindAccount(account) == WalkPath(Split(account), NullId)

\* Book._findCurrency(code): the id of the row, NullId when there is none;
\* without a code (undefined or '') the row with primary key 1
FindCurrency(code) ==
    IF code = "" THEN (IF Len(currencies) >= 1 THEN 1 ELSE NullId)
    ELSE IF \E i \in Ids(currencies) : currencies[i].code = code
         THEN CHOOSE i \in Ids(currencies) : currencies[i].code = code
         ELSE NullId

\* the names of the ancestors of a row with this parentId, root first
\* (findParentOf of the beforeValidate hook)
RECURSIVE FindParentOf(_)
FindParentOf(parentId) ==
    IF parentId = NullId THEN <<>>
    ELSE Append(FindParentOf(accounts[parentId].parentId), accounts[parentId].name)

\* the beforeValidate hook: fullName of a row about to be inserted
HookFullName(name, parentId) == Join(Append(FindParentOf(parentId), name))

\* the virtual field path of an account row
PathOf(i) == Split(accounts[i].fullName)

\* the checks of createAccount made before any lookup: the thrown message or NoErr
CreateAccountNameError(name) ==
    IF name = <<>> THEN "Name not specified"
    ELSE IF Len(name) > FULLNAME_MAX THEN "Name should be <= 255 chars"
    ELSE IF \E k \in 1 .. Len(name) : name[k] \notin WordChars \cup {":"}
         THEN "Name should contain alphanumeric chars and semi-colons as delimeters of account names"
    ELSE IF Len(Split(name)[Len(Split(name))]) > NAME_MAX
         THEN "Account name cannot be > 255 chars"
    ELSE NoErr

Returned(op, arg, err) == [op |-> op, arg |-> arg, err |-> err]

\* Book.createCurrency(code)
CreateCurrency(code) ==
    /\ LET err == IF FindCurrency(code) # NullId THEN "Currency already exists"
                  ELSE IF code = "" THEN "No currency code provided"
                  ELSE IF Len(code) > CODE_MAX THEN "Code 10 chars max"
                  ELSE NoErr
       IN  /\ ret' = Returned("createCurrency", <<code>>, err)
           /\ IF err = NoErr
              THEN /\ Len(currencies) < MaxCurrencies
                   /\ currencies' = Append(currencies, [code |-> code, exchangeRate |-> NoRate])
              ELSE UNCHANGED currencies
    /\ UNCHANGED <<accounts, journals, transactions, balances, entries, calls>>

\* Book.createAccount(name, currency); currency "" is an omitted argument
CreateAccount(name, currency) ==
    /\ IF CreateAccountNameError(name) # NoErr
       THEN /\ ret' = Returned("createAccount", <<name, currency>>, CreateAccountNameError(name))
            /\ UNCHANGED accounts
       ELSE \E dup \in FindAccount(name) :
            IF dup # NullId
            THEN /\ ret' = Returned("createAccount", <<name, currency>>, "Account already exists")
                 /\ UNCHANGED accounts
            ELSE LET accountPath == Split(name)
                     nameCreated == accountPath[Len(accountPath)]
                     \* null and '' are both falsy in "if (parent)"
                     parent == IF Len(accountPath) > 1
                               THEN Join(SubSeq(accountPath, 1, Len(accountPath) - 1))
                               ELSE <<>>
                 IN  \E parentId \in (IF parent # <<>> THEN FindAccount(parent) ELSE {NullId}) :
                     IF parent # <<>> /\ parentId = NullId
                     THEN /\ ret' = Returned("createAccount", <<name, currency>>,
                                             "Parent account not found on DB")
                          /\ UNCHANGED accounts
                     ELSE IF FindCurrency(currency) = NullId
                     THEN /\ ret' = Returned("createAccount", <<name, currency>>,
                                             "Currency not found")
                          /\ UNCHANGED accounts
                     ELSE /\ Len(accounts) < MaxAccounts
                          /\ ret' = Returned("createAccount", <<name, currency>>, NoErr)
                          /\ accounts' = Append(accounts,
                                 [name |-> nameCreated,
                                  fullName |-> HookFullName(nameCreated, parentId),
                                  parentId |-> parentId,
                                  currencyId |-> FindCurrency(currency)])
    /\ UNCHANGED <<currencies, journals, transactions, balances, entries, calls>>

\* the currency codes and account strings the callers of the chart specification use
ChartCodes == {"", "USD", "RUB", "ABCDEFGHIJK"}

ChartNames == StringsUpTo(MaxNameLen) \cup {<<"a", "$">>}

\* the currency argument of createAccount: omitted, or a code
ChartAccountCodes == {"", "RUB"}

\* the store after construction and sync: every table empty
InitEmpty ==
    /\ currencies = <<>>
    /\ accounts = <<>>
    /\ journals = 0
    /\ transactions = <<>>
    /\ balances = <<>>
    /\ entries = <<>>
    /\ calls = <<>>
    /\ ret = Returned("init", <<>>, NoErr)

NextChart ==
    \/ \E code \in ChartCodes : CreateCurrency(code)
    \/ \E name \in ChartNames, currency \in ChartAccountCodes : CreateAccount(name, currency)

SpecChart == InitEmpty /\ [][NextChart]_vars

-----------------------------------------------------------------------------
(* Entry: the draft and its lines (Entry constructor, debit, credit)        *)

\* tolerance of the balance check: NEAR_ZERO = 10^-NEAR_ZERO_EXP
NEAR_ZERO_EXP == 10

\* x >= 10^-k for a rational n/d >= 0, without forming 10^k
RECURSIVE GteTenPow(_, _, _)
GteTenPow(n, d, k) ==
    IF n >= d THEN TRUE
    ELSE IF k = 0 \/ n = 0 THEN FALSE
    ELSE GteTenPow(n * 10, d, k - 1)

\* x.abs().gte(NEAR_ZERO); a comparison with NaN is false
AbsGteNearZero(x) ==
    IF IsNaN(x) THEN FALSE ELSE GteTenPow(Abs(x[1]), x[2], NEAR_ZERO_EXP)

\* new Entry(memo, book): this.entry = {memo, debits: [], credits: []}
NewDraft == [debits |-> <<>>, credits |-> <<>>, committed |-> FALSE]

\* a meta object is the set of its <<key, value>> pairs; {} when meta is omitted
NoMeta == {}

\* one element of entry.debits or entry.credits.  account is the string given
\* to debit/credit; dbAcc is <<>> until _findAccounts replaces el.account by the
\* row it loaded, <<id, currencyId, exchangeRate of the currency as loaded>>
Line(account, amount, meta, exchangeRate) ==
    [account |-> account, dbAcc |-> <<>>, amount |-> amount, meta |-> meta,
     exchangeRate |-> exchangeRate]

\* the lines in the order every loop of Entry visits them: debits, then credits
LinesOf(entry) == entry.debits \o entry.credits

\* the entry with its k-th line (in that order) replaced
WithLine(entry, k, line) ==
    IF k <= Len(entry.debits)
    THEN [entry EXCEPT !.debits[k] = line]
    ELSE [entry EXCEPT !.credits[k - Len(entry.debits)] = line]

\* !exchangeRate for an exchangeRate argument that is undefined or a number:
\* undefined, 0 and NaN are falsy
Falsy(exchangeRate) == exchangeRate = NoRate \/ exchangeRate = BN(0) \/ IsNaN(exchangeRate)

\* Entry._debit_credit: the thrown message or NoErr (account is always a string
\* here).  The exchangeRate checks are inside "if (exchangeRate)"
DebitCreditError(amount, exchangeRate) ==
    IF amount <= 0 THEN "Amount should be > 0"
    ELSE IF ~Falsy(exchangeRate) /\ IsNaN(exchangeRate) THEN "Exchange rate is not a number"
    ELSE IF ~Falsy(exchangeRate) /\ exchangeRate[1] <= 0 THEN "Exchange rate should be > 0"
    ELSE NoErr

\* Book.entry(memo): the caller starts a new draft
Entry ==
    /\ entries' = Append(entries, NewDraft)
    /\ ret' = Returned("entry", <<>>, NoErr)
    /\ UNCHANGED <<store, calls>>

\* Entry.debit / Entry.credit on draft e; direction is "debits" or "credits"
DebitCredit(e, direction, account, amount, meta, exchangeRate) ==
    /\ e \in DOMAIN entries
    /\ LET err == DebitCreditError(amount, exchangeRate)
       IN  /\ ret' = Returned(direction, <<e, account, amount, exchangeRate, meta>>, err)
           /\ entries' = IF err # NoErr THEN entries
                         ELSE IF direction = "debits"
                         THEN [entries EXCEPT ![e].debits = Append(@, Line(account, amount, meta, exchangeRate))]
                         ELSE [entries EXCEPT ![e].credits = Append(@, Line(account, amount, meta, exchangeRate))]
    /\ UNCHANGED <<store, calls>>

-----------------------------------------------------------------------------
(* Entry.commit and the functions it calls                                  *)

\* the property names an object literal {} inherits from Object.prototype that
\* are short enough to be a currency code: currencyUpdates[code] is truthy for
\* them before anything is stored, and for-in does not enumerate them
ObjectPrototypeKeys == {"valueOf", "toString"}

\* Entry._setExchangeRates from line k on: the lines are changed in place one
\* after the other until one throws
RECURSIVE SetExchangeRates(_, _)
SetExchangeRates(entry, k) ==
    IF k > Len(LinesOf(entry)) THEN [entry |-> entry, err |-> NoErr]
    ELSE LET el == LinesOf(entry)[k]
         IN  IF el.dbAcc[2] = 1
             THEN SetExchangeRates(WithLine(entry, k, [el EXCEPT !.exchangeRate = BN(1)]), k + 1)
             ELSE IF Falsy(el.exchangeRate)
             THEN IF Falsy(el.dbAcc[3])
                  THEN [entry |-> entry, err |-> "Cannot find exchange rate"]
                  ELSE SetExchangeRates(WithLine(entry, k, [el EXCEPT !.exchangeRate = el.dbAcc[3]]), k + 1)
             ELSE SetExchangeRates(entry, k + 1)

\* sumDirection of Entry._checkBalance
RECURSIVE SumDirection(_)
SumDirection(direction) ==
    IF direction = <<>> THEN BN(0)
    ELSE Plus(SumDirection(SubSeq(direction, 1, Len(direction) - 1)),
              Div(BN(direction[Len(direction)].amount), direction[Len(direction)].exchangeRate))

\* Entry._checkBalance: the thrown message or NoErr
CheckBalanceError(entry) ==
    IF AbsGteNearZero(Minus(SumDirection(entry.credits), SumDirection(entry.debits)))
    THEN "Entry not balanced"
    ELSE NoErr

\* Entry._makeTransactions: the rows to insert, debits first
MakeTransactions(entry) ==
    [k \in 1 .. Len(LinesOf(entry)) |->
        [amount |-> LinesOf(entry)[k].amount,
         credit |-> k > Len(entry.debits),
         accountId |-> LinesOf(entry)[k].dbAcc[1],
         meta |-> LinesOf(entry)[k].meta,
         exchangeRate |-> LinesOf(entry)[k].exchangeRate]]

\* the first loop of Entry._updateCurrency over the first k lines: the own
\* enumerable keys of currencyUpdates in insertion order, each with the id of
\* the currency instance held and the exchangeRate to save
RECURSIVE CurrencyUpdates(_, _)
CurrencyUpdates(entry, k) ==
    IF k = 0 THEN <<>>
    ELSE LET before == CurrencyUpdates(entry, k - 1)
             el == LinesOf(entry)[k]
             code == currencies[el.dbAcc[2]].code
             rate == IF el.dbAcc[2] # 1 THEN el.exchangeRate ELSE BN(1)
         IN  IF code \in ObjectPrototypeKeys THEN before
             ELSE IF \E j \in 1 .. Len(before) : before[j].code = code
             THEN [j \in 1 .. Len(before) |->
                      IF before[j].code = code THEN [before[j] EXCEPT !.exchangeRate = rate]
                      ELSE before[j]]
             ELSE Append(before, [code |-> code, currencyId |-> el.dbAcc[2], exchangeRate |-> rate])

\* a commit() invocation: the entry it works on, where it stands, and its locals
NewCall(e, pc, err) ==
    [entry |-> e, pc |-> pc, err |-> err, k |-> 1, transactions |-> <<>>,
     journalId |-> NullId, inserted |-> {}, updates |-> <<>>, before |-> store]

Finished(c) == calls[c].pc \in {"done", "failed"}

Fail(c, err) == [calls EXCEPT ![c].pc = "failed", ![c].err = err]

\* commit() without its _committed check
CommitStartUnchecked(e) ==
    /\ e \in DOMAIN entries
    /\ calls' = Append(calls, NewCall(e, "find", NoErr))
    /\ UNCHANGED ret
    /\ UNCHANGED <<store, entries>>

\* commit() is called on draft e: the _committed check, then _findAccounts starts
CommitStart(e) ==
    /\ e \in DOMAIN entries
    /\ IF entries[e].committed
       THEN /\ calls' = Append(calls, NewCall(e, "failed", "This entry is already committed"))
            /\ ret' = Returned("commit", <<e>>, "This entry is already committed")
       ELSE /\ calls' = Append(calls, NewCall(e, "find", NoErr))
            /\ UNCHANGED ret
    /\ UNCHANGED <<store, entries>>

\* one iteration of Entry._findAccounts: Book._findAccount for the k-th line.
\* The lookups of one walk are made one after the other; accounts rows are never
\* changed or removed, so the walk returns what it would return if all its
\* lookups were made at the time of the last one
FindLine(c) ==
    /\ c \in DOMAIN calls
    /\ calls[c].pc = "find"
    /\ calls[c].k <= Len(LinesOf(entries[calls[c].entry]))
    /\ LET e == calls[c].entry
           k == calls[c].k
           el == LinesOf(entries[e])[k]
           pathErr == IF el.dbAcc # <<>> THEN "Account name should be string"
                      ELSE MakeAccountPathError(el.account)
       IN  IF pathErr # NoErr
           THEN /\ calls' = Fail(c, pathErr)
                /\ ret' = Returned("commit", <<e>>, pathErr)
                /\ UNCHANGED entries
           ELSE \E dbAcc \in FindAccount(el.account) :
                IF dbAcc = NullId
                THEN /\ calls' = Fail(c, "Account not found on DB")
                     /\ ret' = Returned("commit", <<e>>, "Account not found on DB")
                     /\ UNCHANGED entries
                ELSE /\ entries' = [entries EXCEPT ![e] = WithLine(@, k,
                            [el EXCEPT !.dbAcc = <<dbAcc, accounts[dbAcc].currencyId,
                                                   currencies[accounts[dbAcc].currencyId].exchangeRate>>])]
                     /\ calls' = [calls EXCEPT ![c].k = k + 1]
                     /\ UNCHANGED ret
    /\ UNCHANGED store

\* commit() with the journalEntries row inserted before _setExchangeRates and
\* _checkBalance have passed
ValidateAfterInsert(c) ==
    /\ c \in DOMAIN calls
    /\ calls[c].pc = "find"
    /\ calls[c].k > Len(LinesOf(entries[calls[c].entry]))
    /\ LET e == calls[c].entry
           rated == SetExchangeRates(entries[e], 1)
           err == IF rated.err # NoErr THEN rated.err ELSE CheckBalanceError(rated.entry)
       IN  /\ entries' = [entries EXCEPT ![e] = rated.entry]
           /\ IF err # NoErr
              THEN /\ calls' = Fail(c, err)
                   /\ ret' = Returned("commit", <<e>>, err)
                   /\ journals' = journals + 1
              ELSE /\ calls' = [calls EXCEPT ![c].pc = "create",
                                             ![c].transactions = MakeTransactions(rated.entry)]
                   /\ UNCHANGED <<ret, journals>>
    /\ UNCHANGED <<currencies, accounts, transactions, balances>>

\* commit() after _findAccounts: _setExchangeRates, _checkBalance and
\* _makeTransactions run without a break, then JournalEntry.create is issued
Validate(c) ==
    /\ c \in DOMAIN calls
    /\ calls[c].pc = "find"
    /\ calls[c].k > Len(LinesOf(entries[calls[c].entry]))
    /\ LET e == calls[c].entry
           rated == SetExchangeRates(entries[e], 1)
           err == IF rated.err # NoErr THEN rated.err ELSE CheckBalanceError(rated.entry)
       IN  /\ entries' = [entries EXCEPT ![e] = rated.entry]
           /\ IF err # NoErr
              THEN /\ calls' = Fail(c, err)
                   /\ ret' = Returned("commit", <<e>>, err)
              ELSE /\ calls' = [calls EXCEPT ![c].pc = "create",
                                             ![c].transactions = MakeTransactions(rated.entry)]
                   /\ UNCHANGED ret
    /\ UNCHANGED store

\* JournalEntry.create, first statement: INSERT of the journalEntries row.  No
\* transaction option is passed, so every statement of the create is on its own
InsertJournal(c) ==
    /\ c \in DOMAIN calls
    /\ calls[c].pc = "create"
    /\ journals' = journals + 1
    /\ calls' = [calls EXCEPT ![c].pc = "children", ![c].journalId = journals + 1]
    /\ UNCHANGED <<currencies, accounts, transactions, balances, entries, ret>>

\* the included rows of JournalEntry.create written at the head of the table:
\* the new row takes the id 1 and every existing row moves up by one
InsertTransactionFirst(c, i) ==
    /\ c \in DOMAIN calls
    /\ calls[c].pc = "children"
    /\ i \in DOMAIN calls[c].transactions \ calls[c].inserted
    /\ transactions' = <<[amount |-> calls[c].transactions[i].amount,
                          credit |-> calls[c].transactions[i].credit,
                          accountId |-> calls[c].transactions[i].accountId,
                          journalId |-> calls[c].journalId,
                          meta |-> calls[c].transactions[i].meta,
                          createdAt |-> calls[c].journalId,
                          exchangeRate |-> calls[c].transactions[i].exchangeRate]>>
                       \o transactions
    /\ calls' = [calls EXCEPT ![c].inserted = @ \cup {i}]
    /\ UNCHANGED <<currencies, accounts, journals, balances, entries, ret>>

\* JournalEntry.create, the included rows: one INSERT for each transaction, all
\* issued together, so they land in any order.  createdAt is the clock read at
\* the insert; the clock of the model ticks once for each journalEntries row
InsertTransaction(c, i) ==
    /\ c \in DOMAIN calls
    /\ calls[c].pc = "children"
    /\ i \in DOMAIN calls[c].transactions \ calls[c].inserted
    /\ transactions' = Append(transactions,
            [amount |-> calls[c].transactions[i].amount,
             credit |-> calls[c].transactions[i].credit,
             accountId |-> calls[c].transactions[i].accountId,
             journalId |-> calls[c].journalId,
             meta |-> calls[c].transactions[i].meta,
             createdAt |-> calls[c].journalId,
             exchangeRate |-> calls[c].transactions[i].exchangeRate])
    /\ calls' = [calls EXCEPT ![c].inserted = @ \cup {i}]
    /\ UNCHANGED <<currencies, accounts, journals, balances, entries, ret>>

\* commit() going on to _updateCurrency without waiting for the create to
\* resolve
MarkCommittedBeforeRows(c) ==
    /\ c \in DOMAIN calls
    /\ calls[c].pc = "children"
    /\ LET e == calls[c].entry
           updates == CurrencyUpdates(entries[e], Len(LinesOf(entries[e])))
       IN  /\ entries' = [entries EXCEPT ![e].committed = TRUE]
           /\ IF updates = <<>>
              THEN /\ calls' = [calls EXCEPT ![c].pc = "done"]
                   /\ ret' = Returned("commit", <<e>>, NoErr)
              ELSE /\ calls' = [calls EXCEPT ![c].pc = "rates", ![c].updates = updates]
                   /\ UNCHANGED ret
    /\ UNCHANGED store

\* commit() after the create resolved: this._committed = true, then the first
\* loop of _updateCurrency
MarkCommitted(c) ==
    /\ c \in DOMAIN calls
    /\ calls[c].pc = "children"
    /\ calls[c].inserted = DOMAIN calls[c].transactions
    /\ LET e == calls[c].entry
           updates == CurrencyUpdates(entries[e], Len(LinesOf(entries[e])))
       IN  /\ entries' = [entries EXCEPT ![e].committed = TRUE]
           /\ IF updates = <<>>
              THEN /\ calls' = [calls EXCEPT ![c].pc = "done"]
                   /\ ret' = Returned("commit", <<e>>, NoErr)
              ELSE /\ calls' = [calls EXCEPT ![c].pc = "rates", ![c].updates = updates]
                   /\ UNCHANGED ret
    /\ UNCHANGED store

\* one iteration of the second loop of _updateCurrency: currency.save()
SaveCurrency(c) ==
    /\ c \in DOMAIN calls
    /\ calls[c].pc = "rates"
    /\ LET u == Head(calls[c].updates)
       IN  currencies' = [currencies EXCEPT ![u.currencyId].exchangeRate = u.exchangeRate]
    /\ IF Len(calls[c].updates) = 1
       THEN /\ calls' = [calls EXCEPT ![c].pc = "done", ![c].updates = <<>>]
            /\ ret' = Returned("commit", <<calls[c].entry>>, NoErr)
       ELSE /\ calls' = [calls EXCEPT ![c].updates = Tail(@)]
            /\ UNCHANGED ret
    /\ UNCHANGED <<accounts, journals, transactions, balances, entries>>

-----------------------------------------------------------------------------
(* The commit protocol driven by one caller at a time                       *)

\* the store after createCurrency('USD'), createCurrency(fx), createAccount('a'),
\* createAccount('a:a', fx): a base-currency root and a foreign-currency child
InitLedger(fx) ==
    /\ currencies = <<[code |-> "USD", exchangeRate |-> NoRate],
                      [code |-> fx, exchangeRate |-> NoRate]>>
    /\ accounts = <<[name |-> <<"a">>, fullName |-> <<"a">>, parentId |-> NullId, currencyId |-> 1],
                    [name |-> <<"a">>, fullName |-> <<"a", ":", "a">>, parentId |-> 1, currencyId |-> 2]>>
    /\ journals = 0
    /\ transactions = <<>>
    /\ balances = <<>>
    /\ entries = <<>>
    /\ calls = <<>>
    /\ ret = Returned("init", <<>>, NoErr)

\* the arguments the callers give to debit and credit
Directions == {"debits", "credits"}

LineAccounts == {<<"a">>, <<"a", ":", "a">>, <<"a", "a">>}

LineAmounts == 1 .. MaxAmount

LineRates == {NoRate, BN(0), BN(MaxRate)}

\* no commit() is running
Quiet == \A c \in DOMAIN calls : Finished(c)

\* the caller lets go of the Entry objects whose commit() calls have returned
Forget ==
    /\ entries # <<>>
    /\ calls # <<>>
    /\ Quiet
    /\ entries' = <<>>
    /\ calls' = <<>>
    /\ UNCHANGED <<store, ret>>

\* the process dies while a commit() is running: the Entry objects and the
\* calls are gone, the store keeps what was written
Crash ==
    /\ ~Quiet
    /\ entries' = <<>>
    /\ calls' = <<>>
    /\ ret' = Returned("crash", <<>>, NoErr)
    /\ UNCHANGED store

Init == \E fx \in {"RUB", "valueOf"} : InitLedger(fx)

Next ==
    \/ /\ entries = <<>>
       /\ journals < MaxJournals
       /\ Entry
    \/ \E direction \in Directions, account \in LineAccounts,
          amount \in LineAmounts, exchangeRate \in LineRates :
          /\ calls = <<>>
          /\ entries # <<>>
          /\ Len(LinesOf(entries[Len(entries)])) < MaxLines
          /\ DebitCredit(Len(entries), direction, account, amount, NoMeta, exchangeRate)
    \/ \E e \in DOMAIN entries :
          /\ Quiet
          /\ Len(calls) < MaxCommits
          /\ CommitStart(e)
    \/ \E c \in DOMAIN calls : FindLine(c)
    \/ \E c \in DOMAIN calls : Validate(c)
    \/ \E c \in DOMAIN calls : InsertJournal(c)
    \/ \E c \in DOMAIN calls : \E i \in DOMAIN calls[c].transactions : InsertTransaction(c, i)
    \/ \E c \in DOMAIN calls : MarkCommitted(c)
    \/ \E c \in DOMAIN calls : SaveCurrency(c)
    \/ Forget
    \/ Crash

Spec == Init /\ [][Next]_vars

-----------------------------------------------------------------------------
(* Balance queries: Book._isolatedBalance, _findSubaccounts, balance        *)

\* the order of the characters under ORDER BY fullName ASC (byte order)
CharRank(ch) == IF ch = "$" THEN 0 ELSE IF ch = ":" THEN 1 ELSE IF ch = "_" THEN 2 ELSE 3

RECURSIVE StrLess(_, _)
StrLess(s, t) ==
    IF t = <<>> THEN FALSE
    ELSE IF s = <<>> THEN TRUE
    ELSE IF Head(s) # Head(t) THEN CharRank(Head(s)) < CharRank(Head(t))
    ELSE StrLess(Tail(s), Tail(t))

\* the account ids of a set in ascending order of fullName (rows with the same
\* fullName in id order)
RECURSIVE ByFullName(_)
ByFullName(ids) ==
    IF ids = {} THEN <<>>
    ELSE LET first == CHOOSE i \in ids : \A j \in ids \ {i} :
                          \/ StrLess(accounts[i].fullName, accounts[j].fullName)
                          \/ accounts[i].fullName = accounts[j].fullName /\ i < j
         IN  <<first>> \o ByFullName(ids \ {first})

\* fullName LIKE strBegin + '%' as [Op.startsWith] builds it: strBegin is put
\* into the pattern as it is, so each '_' in it stands for any one character
\* ('%' is not a character of an account name)
Like(s, strBegin) ==
    /\ Len(strBegin) <= Len(s)
    /\ \A k \in 1 .. Len(strBegin) : strBegin[k] = "_" \/ strBegin[k] = s[k]

\* Book._findSubaccounts(account) for an account row: fullName LIKE
\* account.fullName + ':' + anything, ORDER BY fullName ASC
FindSubaccounts(account) ==
    ByFullName({i \in Ids(accounts) :
        Like(accounts[i].fullName, accounts[account].fullName \o <<":">>)})

\* the signed amounts of a set of transaction rows summed: credit rows negated
RECURSIVE SumSigned(_)
SumSigned(ts) ==
    IF ts = {} THEN BN(0)
    ELSE LET t == CHOOSE x \in ts : TRUE
             amount == IF transactions[t].credit THEN Negated(BN(transactions[t].amount))
                       ELSE BN(transactions[t].amount)
         IN  Plus(amount, SumSigned(ts \ {t}))

\* the greatest element of a non-empty set of ids
MaxOf(ids) == CHOOSE i \in ids : \A j \in ids : j <= i

\* _isolatedBalance writing a Balance row on every call, also when it has
\* fetched no transaction
IsolatedBalanceAlwaysWrites(account, bal) ==
    LET cached == {b \in 1 .. Len(bal) : bal[b].accountId = account}
        fromTxId == IF cached = {} THEN 0 ELSE bal[MaxOf(cached)].transactionId
        txs == {t \in Ids(transactions) :
                   transactions[t].accountId = account /\ t > fromTxId}
        sum == IF cached = {} THEN SumSigned(txs)
               ELSE Plus(SumSigned(txs), BN(bal[MaxOf(cached)].amount))
    IN  [sum |-> sum,
         balances |-> Append(bal, [accountId |-> account,
                                   transactionId |-> IF txs = {} THEN fromTxId ELSE MaxOf(txs),
                                   amount |-> sum[1]])]

\* _isolatedBalance fetching the transactions with id >= fromTxId: the
\* checkpoint transaction is folded a second time
IsolatedBalanceFromInclusive(account, bal) ==
    LET cached == {b \in 1 .. Len(bal) : bal[b].accountId = account}
        fromTxId == IF cached = {} THEN 0 ELSE bal[MaxOf(cached)].transactionId
        txs == {t \in Ids(transactions) :
                   transactions[t].accountId = account /\ t >= fromTxId}
        sum == IF cached = {} THEN SumSigned(txs)
               ELSE Plus(SumSigned(txs), BN(bal[MaxOf(cached)].amount))
    IN  [sum |-> sum,
         balances |-> IF txs = {} THEN bal
                      ELSE Append(bal, [accountId |-> account,
                                        transactionId |-> MaxOf(txs),
                                        amount |-> sum[1]])]

\* Book._isolatedBalance(account) run on the balances table bal: the sum it
\* returns and the balances table it leaves
IsolatedBalance(account, bal) ==
    LET cached == {b \in 1 .. Len(bal) : bal[b].accountId = account}
        \* findOne ... order: [['id', 'DESC']]
        fromTxId == IF cached = {} THEN 0 ELSE bal[MaxOf(cached)].transactionId
        txs == {t \in Ids(transactions) :
                   transactions[t].accountId = account /\ t > fromTxId}
        sum == IF cached = {} THEN SumSigned(txs)
               ELSE Plus(SumSigned(txs), BN(bal[MaxOf(cached)].amount))
    IN  [sum |-> sum,
         balances |-> IF txs = {} THEN bal
                      ELSE Append(bal, [accountId |-> account,
                                        transactionId |-> MaxOf(txs),
                                        \* sum.toString() into a BIGINT column
                                        amount |-> sum[1]])]

\* the loop of Book.balance over accs from position k on: the total, the sum
\* _isolatedBalance returned for each account, and the balances table left
RECURSIVE BalanceLoop(_, _, _, _, _)
BalanceLoop(accs, k, total, iso, bal) ==
    IF k > Len(accs) THEN [total |-> total, iso |-> iso, balances |-> bal]
    ELSE LET acc == accs[k]
             one == IsolatedBalance(acc, bal)
             baseCurrencyBal ==
                 IF accounts[acc].currencyId # 1
                 THEN Div(one.sum, currencies[accounts[acc].currencyId].exchangeRate)
                 ELSE one.sum
         IN  BalanceLoop(accs, k + 1, Plus(total, baseCurrencyBal),
                         Append(iso, <<acc, one.sum>>), one.balances)

\* Book.balance(account)
Balance(account) ==
    /\ IF MakeAccountPathError(account) # NoErr
       THEN /\ ret' = Returned("balance", <<account>>, MakeAccountPathError(account))
            /\ UNCHANGED balances
       ELSE \E dbAcc \in FindAccount(account) :
            IF dbAcc = NullId
            THEN /\ ret' = Returned("balance", <<account>>, "Account not found on DB")
                 /\ UNCHANGED balances
            ELSE LET done == BalanceLoop(<<dbAcc>> \o FindSubaccounts(dbAcc), 1, BN(0), <<>>, balances)
                 IN  /\ ret' = [op |-> "balance", arg |-> <<account>>, err |-> NoErr,
                                val |-> done.total, account |-> dbAcc, iso |-> done.iso]
                     /\ balances' = done.balances
    /\ UNCHANGED <<currencies, accounts, journals, transactions, entries, calls>>

-----------------------------------------------------------------------------
(* Commits and balance queries of one caller                                *)

\* the store of InitLedger("RUB") after one more createAccount: of 'aa', a root
\* whose name begins with the name of 'a', or of ':a', which inserts a second
\* root account named 'a'
InitBalance(third) ==
    /\ currencies = <<[code |-> "USD", exchangeRate |-> NoRate],
                      [code |-> "RUB", exchangeRate |-> NoRate]>>
    /\ accounts = <<[name |-> <<"a">>, fullName |-> <<"a">>, parentId |-> NullId, currencyId |-> 1],
                    [name |-> <<"a">>, fullName |-> <<"a", ":", "a">>, parentId |-> 1, currencyId |-> 2],
                    [name |-> third, fullName |-> third, parentId |-> NullId, currencyId |-> 1]>>
    /\ journals = 0
    /\ transactions = <<>>
    /\ balances = <<>>
    /\ entries = <<>>
    /\ calls = <<>>
    /\ ret = Returned("init", <<>>, NoErr)

BalanceAccounts == {<<"a">>, <<"a", ":", "a">>, <<"a", "a">>}

\* the rates of the lines committed before a balance query: none or a valid one
BalanceLineRates == {NoRate, BN(MaxRate)}

InitBal == \E third \in {<<"a", "a">>, <<"a">>} : InitBalance(third)

NextBal ==
    \/ /\ entries = <<>>
       /\ journals < MaxJournals
       /\ Entry
    \/ \E direction \in Directions, account \in {<<"a">>, <<"a", ":", "a">>},
          amount \in LineAmounts, exchangeRate \in BalanceLineRates :
          /\ calls = <<>>
          /\ entries # <<>>
          /\ Len(LinesOf(entries[Len(entries)])) < MaxLines
          /\ DebitCredit(Len(entries), direction, account, amount, NoMeta, exchangeRate)
    \/ \E e \in DOMAIN entries :
          /\ calls = <<>>
          /\ CommitStart(e)
    \/ \E c \in DOMAIN calls : FindLine(c)
    \/ \E c \in DOMAIN calls : Validate(c)
    \/ \E c \in DOMAIN calls : InsertJournal(c)
    \/ \E c \in DOMAIN calls : \E i \in DOMAIN calls[c].transactions : InsertTransaction(c, i)
    \/ \E c \in DOMAIN calls : MarkCommitted(c)
    \/ \E c \in DOMAIN calls : SaveCurrency(c)
    \/ Forget
    \/ \E account \in BalanceAccounts :
          /\ entries = <<>>
          /\ Balance(account)

SpecBalance == InitBal /\ [][NextBal]_vars

-----------------------------------------------------------------------------
(* createAccount calls that overlap: each await of createAccount is a point *)
(* where another call may run.  The lookups made before Account.create are  *)
(* one step (accounts rows are never changed or removed, and a lookup that  *)
(* finds nothing early finds nothing at the time the first one is made),    *)
(* the insert with its beforeValidate hook is another                       *)

MaxCreates == 2      \* createAccount calls in flight at once

\* createAccount from its argument checks to the last lookup; a call that
\* passes them all is left waiting to insert
CreateAccountLookups(name, currency) ==
    /\ Len(calls) < MaxCreates
    /\ IF CreateAccountNameError(name) # NoErr
       THEN /\ ret' = Returned("createAccount", <<name, currency>>, CreateAccountNameError(name))
            /\ UNCHANGED calls
       ELSE \E dup \in FindAccount(name) :
            IF dup # NullId
            THEN /\ ret' = Returned("createAccount", <<name, currency>>, "Account already exists")
                 /\ UNCHANGED calls
            ELSE LET accountPath == Split(name)
                     nameCreated == accountPath[Len(accountPath)]
                     parent == IF Len(accountPath) > 1
                               THEN Join(SubSeq(accountPath, 1, Len(accountPath) - 1))
                               ELSE <<>>
                 IN  \E parentId \in (IF parent # <<>> THEN FindAccount(parent) ELSE {NullId}) :
                     IF parent # <<>> /\ parentId = NullId
                     THEN /\ ret' = Returned("createAccount", <<name, currency>>,
                                             "Parent account not found on DB")
                          /\ UNCHANGED calls
                     ELSE IF FindCurrency(currency) = NullId
                     THEN /\ ret' = Returned("createAccount", <<name, currency>>,
                                             "Currency not found")
                          /\ UNCHANGED calls
                     ELSE /\ calls' = Append(calls,
                                 [op |-> "createAccount", arg |-> <<name, currency>>,
                                  name |-> nameCreated, parentId |-> parentId,
                                  currencyId |-> FindCurrency(currency)])
                          /\ UNCHANGED ret
    /\ UNCHANGED <<store, entries>>

\* db.Account.create of a waiting call: the hook computes fullName, the row is
\* inserted (the accounts table has no unique index), the call returns true
CreateAccountInsert(c) ==
    /\ c \in DOMAIN calls
    /\ Len(accounts) < MaxAccounts
    /\ accounts' = Append(accounts,
           [name |-> calls[c].name,
            fullName |-> HookFullName(calls[c].name, calls[c].parentId),
            parentId |-> calls[c].parentId,
            currencyId |-> calls[c].currencyId])
    /\ calls' = SubSeq(calls, 1, c - 1) \o SubSeq(calls, c + 1, Len(calls))
    /\ ret' = Returned("createAccount", calls[c].arg, NoErr)
    /\ UNCHANGED <<currencies, journals, transactions, balances, entries>>

\* the account strings of the overlapping calls: well-formed paths only
ConcurrentNames == {<<"a">>, <<"a", "a">>, <<"a", ":", "a">>}

InitConcurrent ==
    /\ currencies = <<[code |-> "USD", exchangeRate |-> NoRate],
                      [code |-> "RUB", exchangeRate |-> NoRate]>>
    /\ accounts = <<>>
    /\ journals = 0
    /\ transactions = <<>>
    /\ balances = <<>>
    /\ entries = <<>>
    /\ calls = <<>>
    /\ ret = Returned("init", <<>>, NoErr)

NextConcurrent ==
    \/ \E name \in ConcurrentNames, currency \in ChartAccountCodes :
          CreateAccountLookups(name, currency)
    \/ \E c \in DOMAIN calls : CreateAccountInsert(c)

SpecChartConcurrent == InitConcurrent /\ [][NextConcurrent]_vars

-----------------------------------------------------------------------------
(* Book.ledger                                                              *)

\* an omitted options.startDate / options.endDate (falsy)
NoDate == 0

\* where: {meta}: one JSONB condition for each key of the filter, none for {}
MetaMatches(filter, meta) == filter \subseteq meta

\* the elements of a sequence
Range(s) == {s[k] : k \in DOMAIN s}

\* findAll ... order: [['createdAt', order]] over the rows ts: the sequences
\* it may return; rows of equal createdAt come in any order
OrderedBy(ts, order) ==
    {s \in [1 .. Cardinality(ts) -> ts] :
        /\ \A i, j \in DOMAIN s : i # j => s[i] # s[j]
        /\ \A i, j \in DOMAIN s :
              i < j => IF order = "ASC"
                       THEN transactions[s[i]].createdAt <= transactions[s[j]].createdAt
                       ELSE transactions[s[i]].createdAt >= transactions[s[j]].createdAt}

\* an omitted options.limit (undefined)
NoLimit == 0 - 1

\* OFFSET offset LIMIT limit; "if (options.limit)" is false for an omitted
\* limit and for the limit 0, and the limit passed to findAll is then undefined
Paginate(s, offset, limit) ==
    SubSeq(s, offset + 1,
           IF limit \in {NoLimit, 0} \/ offset + limit > Len(s) THEN Len(s) ELSE offset + limit)

\* Book.ledger(account, meta, {startDate, endDate, offset, limit, order}).
\* An option that is 0, NoDate or "" is falsy and keeps its default; new Date()
\* is the clock at the call, new Date(0) is before every createdAt
Ledger(account, meta, startDate, endDate, offset, limit, order) ==
    /\ LET arg == <<account, meta, startDate, endDate, offset, limit, order>>
       IN  IF MakeAccountPathError(account) # NoErr
           THEN ret' = Returned("ledger", arg, MakeAccountPathError(account))
           ELSE \E dbAcc \in FindAccount(account) :
                IF dbAcc = NullId
                THEN ret' = Returned("ledger", arg, "Account not found on DB")
                ELSE LET start == IF startDate = NoDate THEN 0 ELSE startDate
                         end == IF endDate = NoDate THEN journals ELSE endDate
                         ord == IF order = "asc" THEN "ASC" ELSE "DESC"
                         accIds == {dbAcc} \cup Range(FindSubaccounts(dbAcc))
                         txs == {t \in Ids(transactions) :
                                    /\ transactions[t].accountId \in accIds
                                    /\ start <= transactions[t].createdAt
                                    /\ transactions[t].createdAt <= end
                                    /\ MetaMatches(meta, transactions[t].meta)}
                     IN  IF start > end
                         THEN ret' = Returned("ledger", arg,
                                         "options.startDate should go before options.endDate")
                         ELSE IF offset < 0
                         THEN ret' = Returned("ledger", arg,
                                         "options.offset should be integer number >= 0")
                         ELSE IF limit < 0 /\ limit # NoLimit
                         THEN ret' = Returned("ledger", arg,
                                         "options.limit should be integer number >= 0")
                         ELSE \E s \in OrderedBy(txs, ord) :
                              ret' = [op |-> "ledger", arg |-> arg, err |-> NoErr,
                                      account |-> dbAcc, val |-> Paginate(s, offset, limit)]
    /\ UNCHANGED <<store, entries, calls>>

\* the meta objects of the lines and of the filters
LedgerMetas == {NoMeta, {<<"type", "x">>}}

\* the accounts of the lines: one below 'a' and one beside it
LedgerLineAccounts == {<<"a", ":", "a">>, <<"a", "a">>}

\* <<startDate, endDate, offset, limit, order>> of the queries: all omitted; a
\* window open at one end, ascending; one row after the first; an empty
\* window; the limit 0
LedgerOptions ==
    {<<NoDate, NoDate, 0, NoLimit, "">>,
     <<MaxJournals, NoDate, 0, NoLimit, "asc">>,
     <<NoDate, 1, 0, NoLimit, "asc">>,
     <<NoDate, NoDate, 1, 1, "">>,
     <<MaxJournals, 1, 0, NoLimit, "">>,
     <<NoDate, NoDate, 0, 0, "asc">>}

\* entries of amount 1 at rate 1 posted on those accounts, then queries
NextLedger ==
    \/ /\ entries = <<>>
       /\ journals < MaxJournals
       /\ Entry
    \/ \E direction \in Directions, account \in LedgerLineAccounts, meta \in LedgerMetas :
          /\ calls = <<>>
          /\ entries # <<>>
          /\ Len(LinesOf(entries[Len(entries)])) < MaxLines
          /\ DebitCredit(Len(entries), direction, account, 1, meta, BN(1))
    \/ \E e \in DOMAIN entries :
          /\ calls = <<>>
          /\ Len(LinesOf(entries[e])) = MaxLines
          /\ CommitStart(e)
    \/ \E c \in DOMAIN calls : FindLine(c)
    \/ \E c \in DOMAIN calls : Validate(c)
    \/ \E c \in DOMAIN calls : InsertJournal(c)
    \/ \E c \in DOMAIN calls : \E i \in DOMAIN calls[c].transactions : InsertTransaction(c, i)
    \/ \E c \in DOMAIN calls : MarkCommitted(c)
    \/ \E c \in DOMAIN calls : SaveCurrency(c)
    \/ Forget
    \/ \E account \in BalanceAccounts, meta \in LedgerMetas, o \in LedgerOptions :
          /\ entries = <<>>
          /\ Ledger(account, meta, o[1], o[2], o[3], o[4], o[5])

SpecLedger == InitBal /\ [][NextLedger]_vars

-----------------------------------------------------------------------------
(* Book.tradingBalance                                                      *)

\* credits.plus(tx.amount) / debits.plus(tx.amount) over a set of rows
RECURSIVE SumAmount(_)
SumAmount(ts) ==
    IF ts = {} THEN 0
    ELSE LET t == CHOOSE x \in ts : TRUE
         IN  transactions[t].amount + SumAmount(ts \ {t})

\* the findAll of tradingBalance without its condition on account.currencyId
TradingRowsOfAnyCurrency(currency, credit, start, end) ==
    {t \in Ids(transactions) :
        /\ transactions[t].credit = credit
        /\ start <= transactions[t].createdAt
        /\ transactions[t].createdAt <= end}

\* the rows the two findAll of one currency return: the transactions of the
\* accounts of the currency in that direction created within [start, end]
TradingRows(currency, credit, start, end) ==
    {t \in Ids(transactions) :
        /\ accounts[transactions[t].accountId].currencyId = currency
        /\ transactions[t].credit = credit
        /\ start <= transactions[t].createdAt
        /\ transactions[t].createdAt <= end}

\* debits.minus(credits) of one currency
TradingDiff(currency, start, end) ==
    SumAmount(TradingRows(currency, FALSE, start, end))
    - SumAmount(TradingRows(currency, TRUE, start, end))

\* the loop of tradingBalance over the currencies from k on: tb.base
RECURSIVE TradingBase(_, _, _, _)
TradingBase(k, base, start, end) ==
    IF k > Len(currencies) THEN base
    ELSE TradingBase(k + 1,
             Plus(base, Div(BN(TradingDiff(k, start, end)), currencies[k].exchangeRate)),
             start, end)

\* Book.tradingBalance({startDate, endDate}); NoDate is an option left out
TradingBalance(startDate, endDate) ==
    /\ LET start == IF startDate = NoDate THEN 0 ELSE startDate
           end == IF endDate = NoDate THEN journals ELSE endDate
       IN  IF start > end
           THEN ret' = Returned("tradingBalance", <<startDate, endDate>>,
                           "options.startDate should go before options.endDate")
           ELSE ret' = [op |-> "tradingBalance", arg |-> <<startDate, endDate>>, err |-> NoErr,
                        currency |-> [k \in Ids(currencies) |-> TradingDiff(k, start, end)],
                        base |-> TradingBase(1, BN(0), start, end)]
    /\ UNCHANGED <<store, entries, calls>>

\* the rates of the lines: two valid rates, so that a currency is traded at
\* one rate and back at another
TradingRates == {BN(1), BN(MaxRate)}

\* <<startDate, endDate>> of the queries
TradingDates == {<<NoDate, NoDate>>, <<MaxJournals, NoDate>>, <<NoDate, 1>>, <<MaxJournals, 1>>}

NextTrading ==
    \/ /\ entries = <<>>
       /\ journals < MaxJournals
       /\ Entry
    \/ \E direction \in Directions, account \in {<<"a">>, <<"a", ":", "a">>},
          amount \in LineAmounts, exchangeRate \in TradingRates :
          /\ calls = <<>>
          /\ entries # <<>>
          /\ Len(LinesOf(entries[Len(entries)])) < MaxLines
          /\ DebitCredit(Len(entries), direction, account, amount, NoMeta, exchangeRate)
    \/ \E e \in DOMAIN entries :
          /\ calls = <<>>
          /\ CommitStart(e)
    \/ \E c \in DOMAIN calls : FindLine(c)
    \/ \E c \in DOMAIN calls : Validate(c)
    \/ \E c \in DOMAIN calls : InsertJournal(c)
    \/ \E c \in DOMAIN calls : \E i \in DOMAIN calls[c].transactions : InsertTransaction(c, i)
    \/ \E c \in DOMAIN calls : MarkCommitted(c)
    \/ \E c \in DOMAIN calls : SaveCurrency(c)
    \/ Forget
    \/ \E dates \in TradingDates :
          /\ entries = <<>>
          /\ TradingBalance(dates[1], dates[2])

SpecTrading == InitLedger("RUB") /\ [][NextTrading]_vars

-----------------------------------------------------------------------------
(* balance() calls that overlap each other and a commit()                   *)
(*                                                                          *)
(* Every await of balance / _isolatedBalance is a point where other calls   *)
(* run, so each query is a step.  The INSERTs that JournalEntry.create      *)
(* issues for the included rows run side by side on connections of the      *)
(* pool, each in its own implicit transaction: a statement takes the next   *)
(* value of the id sequence when it runs, and its row is visible to other   *)
(* connections when its transaction commits, so a row with a higher id can  *)
(* be visible before a row with a lower one.  An id that is taken and not   *)
(* yet visible is a row of the table with accountId NullId, which no query  *)
(* selects.                                                                 *)

MaxReaders == 2      \* balance() calls of one behaviour

\* a row of the transactions table whose INSERT has taken its id and has not
\* committed yet
Pending(journalId) ==
    [amount |-> 0, credit |-> FALSE, accountId |-> NullId, journalId |-> journalId,
     meta |-> NoMeta, createdAt |-> journalId, exchangeRate |-> NoRate]

\* the calls of balance() among the calls
Readers == {c \in DOMAIN calls : "accs" \in DOMAIN calls[c]}

\* an INSERT of JournalEntry.create for an included row runs: nextval
TakeTransactionId(c) ==
    /\ c \in DOMAIN calls \ Readers
    /\ calls[c].pc = "children"
    /\ Cardinality({t \in Ids(transactions) : transactions[t].journalId = calls[c].journalId})
           < Len(calls[c].transactions)
    /\ transactions' = Append(transactions, Pending(calls[c].journalId))
    /\ UNCHANGED <<currencies, accounts, journals, balances, entries, calls, ret>>

\* the INSERT of line i, which took the id t, commits: the row is visible
CommitTransactionRow(c, i, t) ==
    /\ c \in DOMAIN calls \ Readers
    /\ calls[c].pc = "children"
    /\ i \in DOMAIN calls[c].transactions \ calls[c].inserted
    /\ t \in Ids(transactions)
    /\ transactions[t] = Pending(calls[c].journalId)
    /\ transactions' = [transactions EXCEPT ![t] =
            [amount |-> calls[c].transactions[i].amount,
             credit |-> calls[c].transactions[i].credit,
             accountId |-> calls[c].transactions[i].accountId,
             journalId |-> calls[c].journalId,
             meta |-> calls[c].transactions[i].meta,
             createdAt |-> calls[c].journalId,
             exchangeRate |-> calls[c].transactions[i].exchangeRate]]
    /\ calls' = [calls EXCEPT ![c].inserted = @ \cup {i}]
    /\ UNCHANGED <<currencies, accounts, journals, balances, entries, ret>>

\* balance(account) up to its loop: _findAccount and _findSubaccounts
BalanceStart(account) ==
    /\ Cardinality(Readers) < MaxReaders
    /\ MakeAccountPathError(account) = NoErr
    /\ \E dbAcc \in FindAccount(account) :
          /\ dbAcc # NullId
          /\ calls' = Append(calls,
                 [pc |-> "checkpoint", arg |-> <<account>>,
                  accs |-> <<dbAcc>> \o FindSubaccounts(dbAcc), k |-> 1,
                  balance |-> BN(0), dbBal |-> NullId, sum |-> BN(0), txId |-> NullId])
    /\ UNCHANGED <<store, entries, ret>>

\* _isolatedBalance, first query: the Balance row of the account with the
\* highest id, if there is one
LoadCheckpoint(c) ==
    /\ c \in Readers
    /\ calls[c].pc = "checkpoint"
    /\ LET cached == {b \in Ids(balances) : balances[b].accountId = calls[c].accs[calls[c].k]}
       IN  calls' = [calls EXCEPT ![c].pc = "fetch",
                                  ![c].dbBal = IF cached = {} THEN NullId ELSE MaxOf(cached)]
    /\ UNCHANGED <<store, entries, ret>>

\* balance() after _isolatedBalance returned sum for the k-th account: the
\* conversion, then the next account or the return
AfterIsolatedBalance(call, sum) ==
    LET acc == call.accs[call.k]
        baseCurrencyBal == IF accounts[acc].currencyId # 1
                           THEN Div(sum, currencies[accounts[acc].currencyId].exchangeRate)
                           ELSE sum
    IN  [call EXCEPT !.balance = Plus(@, baseCurrencyBal),
                     !.k = @ + 1,
                     !.pc = IF call.k = Len(call.accs) THEN "done" ELSE "checkpoint"]

\* _isolatedBalance, second query and the sum: the transactions of the
\* account with id > fromTxId that are visible now
FetchTransactions(c) ==
    /\ c \in Readers
    /\ calls[c].pc = "fetch"
    /\ LET account == calls[c].accs[calls[c].k]
           dbBal == calls[c].dbBal
           fromTxId == IF dbBal = NullId THEN 0 ELSE balances[dbBal].transactionId
           txs == {t \in Ids(transactions) :
                      transactions[t].accountId = account /\ t > fromTxId}
           sum == IF dbBal = NullId THEN SumSigned(txs)
                  ELSE Plus(SumSigned(txs), BN(balances[dbBal].amount))
       IN  IF txs = {}
           THEN LET after == AfterIsolatedBalance(calls[c], sum)
                IN  /\ calls' = [calls EXCEPT ![c] = after]
                    /\ ret' = IF after.pc = "done"
                              THEN [op |-> "balance", arg |-> calls[c].arg, err |-> NoErr,
                                    val |-> after.balance]
                              ELSE ret
           ELSE /\ calls' = [calls EXCEPT ![c].pc = "write", ![c].sum = sum,
                                          ![c].txId = MaxOf(txs)]
                /\ UNCHANGED ret
    /\ UNCHANGED <<store, entries>>

\* _isolatedBalance, Balance.create of the checkpoint row, and its return
WriteCheckpoint(c) ==
    /\ c \in Readers
    /\ calls[c].pc = "write"
    /\ balances' = Append(balances, [accountId |-> calls[c].accs[calls[c].k],
                                     transactionId |-> calls[c].txId,
                                     amount |-> calls[c].sum[1]])
    /\ LET after == AfterIsolatedBalance(calls[c], calls[c].sum)
       IN  /\ calls' = [calls EXCEPT ![c] = after]
           /\ ret' = IF after.pc = "done"
                     THEN [op |-> "balance", arg |-> calls[c].arg, err |-> NoErr,
                           val |-> after.balance]
                     ELSE ret
    /\ UNCHANGED <<currencies, accounts, journals, transactions, entries>>

\* _isolatedBalance when the promise of Balance.create rejects (the database
\* refuses the INSERT or the connection is lost): the await is in no try
\* block, so _isolatedBalance rejects, and balance(), which awaits it in no try
\* block either, rejects with the same error
WriteCheckpointRejected(c) ==
    /\ c \in Readers
    /\ calls[c].pc = "write"
    /\ calls' = [calls EXCEPT ![c].pc = "failed"]
    /\ ret' = Returned("balance", calls[c].arg, "SequelizeDatabaseError")
    /\ UNCHANGED <<store, entries>>

\* one base-currency account
InitCheckpoint ==
    /\ currencies = <<[code |-> "USD", exchangeRate |-> NoRate]>>
    /\ accounts = <<[name |-> <<"a">>, fullName |-> <<"a">>, parentId |-> NullId, currencyId |-> 1]>>
    /\ journals = 0
    /\ transactions = <<>>
    /\ balances = <<>>
    /\ entries = <<>>
    /\ calls = <<>>
    /\ ret = Returned("init", <<>>, NoErr)

\* one entry on the account is built and committed while balance('a') is
\* called up to MaxReaders times
NextCheckpoint ==
    \/ /\ entries = <<>>
       /\ Entry
    \/ \E direction \in Directions, amount \in LineAmounts :
          /\ DOMAIN calls \subseteq Readers
          /\ entries # <<>>
          /\ Len(LinesOf(entries[Len(entries)])) < MaxLines
          /\ DebitCredit(Len(entries), direction, <<"a">>, amount, NoMeta, NoRate)
    \/ \E e \in DOMAIN entries :
          /\ DOMAIN calls \subseteq Readers
          /\ CommitStart(e)
    \/ \E c \in DOMAIN calls \ Readers : FindLine(c)
    \/ \E c \in DOMAIN calls \ Readers : Validate(c)
    \/ \E c \in DOMAIN calls \ Readers : InsertJournal(c)
    \/ \E c \in DOMAIN calls : TakeTransactionId(c)
    \/ \E c \in DOMAIN calls \ Readers : \E i \in DOMAIN calls[c].transactions :
          \E t \in Ids(transactions) : CommitTransactionRow(c, i, t)
    \/ \E c \in DOMAIN calls \ Readers : MarkCommitted(c)
    \/ \E c \in DOMAIN calls \ Readers : SaveCurrency(c)
    \/ BalanceStart(<<"a">>)
    \/ \E c \in DOMAIN calls : LoadCheckpoint(c)
    \/ \E c \in DOMAIN calls : FetchTransactions(c)
    \/ \E c \in DOMAIN calls : WriteCheckpoint(c)
    \/ \E c \in DOMAIN calls : WriteCheckpointRejected(c)

SpecCheckpoint == InitCheckpoint /\ [][NextCheckpoint]_vars

-----------------------------------------------------------------------------
(* A commit() that fails on a missing account, createAccount, and commit()  *)
(* again on the same Entry object                                           *)

\* the accounts of the lines: one that exists from the start and one that
\* does not
RetryLineAccounts == {<<"a">>, <<"a", "a">>}

\* one caller builds one entry, and between its commit() calls may create the
\* account 'aa'
NextRetry ==
    \/ /\ entries = <<>>
       /\ Entry
    \/ \E direction \in Directions, account \in RetryLineAccounts, amount \in LineAmounts :
          /\ calls = <<>>
          /\ entries # <<>>
          /\ Len(LinesOf(entries[Len(entries)])) < MaxLines
          /\ DebitCredit(Len(entries), direction, account, amount, NoMeta, NoRate)
    \/ /\ Quiet
       /\ CreateAccount(<<"a", "a">>, "")
    \/ \E e \in DOMAIN entries :
          /\ Quiet
          /\ Len(calls) < MaxCommits
          /\ CommitStart(e)
    \/ \E c \in DOMAIN calls : FindLine(c)
    \/ \E c \in DOMAIN calls : Validate(c)
    \/ \E c \in DOMAIN calls : InsertJournal(c)
    \/ \E c \in DOMAIN calls : \E i \in DOMAIN calls[c].transactions : InsertTransaction(c, i)
    \/ \E c \in DOMAIN calls : MarkCommitted(c)
    \/ \E c \in DOMAIN calls : SaveCurrency(c)

SpecRetry == InitLedger("RUB") /\ [][NextRetry]_vars

-----------------------------------------------------------------------------
(* Every operation of the book beside the commit protocol                   *)

\* the store after createCurrency('USD') and createAccount('a')
InitRates ==
    /\ currencies = <<[code |-> "USD", exchangeRate |-> NoRate]>>
    /\ accounts = <<[name |-> <<"a">>, fullName |-> <<"a">>, parentId |-> NullId, currencyId |-> 1]>>
    /\ journals = 0
    /\ transactions = <<>>
    /\ balances = <<>>
    /\ entries = <<>>
    /\ calls = <<>>
    /\ ret = Returned("init", <<>>, NoErr)

\* one caller at a time: the chart grows by the currency RUB and the account
\* 'a:a', entries are built and committed, the process may die during a
\* commit(), and between entries the queries run
NextRates ==
    \/ /\ entries = <<>>
       /\ journals < MaxJournals
       /\ Entry
    \/ \E direction \in Directions, account \in {<<"a">>, <<"a", ":", "a">>},
          exchangeRate \in BalanceLineRates :
          /\ calls = <<>>
          /\ entries # <<>>
          /\ Len(LinesOf(entries[Len(entries)])) < MaxLines
          /\ DebitCredit(Len(entries), direction, account, 1, NoMeta, exchangeRate)
    \/ \E e \in DOMAIN entries :
          /\ calls = <<>>
          /\ CommitStart(e)
    \/ \E c \in DOMAIN calls : FindLine(c)
    \/ \E c \in DOMAIN calls : Validate(c)
    \/ \E c \in DOMAIN calls : InsertJournal(c)
    \/ \E c \in DOMAIN calls : \E i \in DOMAIN calls[c].transactions : InsertTransaction(c, i)
    \/ \E c \in DOMAIN calls : MarkCommitted(c)
    \/ \E c \in DOMAIN calls : SaveCurrency(c)
    \/ Forget
    \/ Crash
    \/ \E code \in {"USD", "RUB"} :
          /\ entries = <<>>
          /\ CreateCurrency(code)
    \/ /\ entries = <<>>
       /\ CreateAccount(<<"a", ":", "a">>, "RUB")
    \/ \E account \in {<<"a">>, <<"a", ":", "a">>} :
          /\ entries = <<>>
          /\ Balance(account)
    \/ /\ entries = <<>>
       /\ Ledger(<<"a">>, NoMeta, NoDate, NoDate, 0, NoLimit, "")
    \/ /\ entries = <<>>
       /\ TradingBalance(NoDate, NoDate)

SpecRates == InitRates /\ [][NextRates]_vars

-----------------------------------------------------------------------------
(* Charts whose account names hold the character '_'                        *)

\* the account strings given to createAccount and balance: roots of two
\* characters and accounts below them
SubtreeNames ==
    LET roots == {<<"a", "a">>, <<"a", "_">>, <<"_", "a">>}
    IN  roots \cup {r \o <<":", "a">> : r \in roots}

\* the store after createCurrency('USD')
InitSubtree ==
    /\ currencies = <<[code |-> "USD", exchangeRate |-> NoRate]>>
    /\ accounts = <<>>
    /\ journals = 0
    /\ transactions = <<>>
    /\ balances = <<>>
    /\ entries = <<>>
    /\ calls = <<>>
    /\ ret = Returned("init", <<>>, NoErr)

\* accounts are created one call after the other, and balance is queried
NextSubtree ==
    \/ \E name \in SubtreeNames : CreateAccount(name, "")
    \/ \E account \in SubtreeNames : Balance(account)

SpecSubtree == InitSubtree /\ [][NextSubtree]_vars

-----------------------------------------------------------------------------
(* The statements a call has sent to the store when it throws               *)

\* the number of queries the call op(arg) has awaited when it throws err, as
\* the order of the statements of the operation gives it:
\*   createCurrency  awaits _findCurrency(code), one query, before its checks
\*                   of the code;
\*   createAccount   checks the name, then awaits _findAccount;
\*   ledger          awaits _findAccount (one findOne for each segment until
\*                   one is missing; none if _makeAccountPath throws) and
\*                   _findSubaccounts, then checks the options;
\*   tradingBalance  checks the options, then awaits Currency.findAll
QueriesBeforeThrow(op, arg, err) ==
    IF op = "createCurrency" THEN 1
    ELSE IF op = "createAccount"
         THEN IF err = CreateAccountNameError(arg[1]) THEN 0 ELSE 1
    ELSE IF op = "ledger"
         THEN IF err = MakeAccountPathError(arg[1]) THEN 0
              ELSE IF err = "Account not found on DB" THEN 1
              ELSE Len(Split(arg[1])) + 1
    ELSE 0

-----------------------------------------------------------------------------
(* commit() calls on one Entry object that overlap                          *)
(*                                                                          *)
(* commit() runs up to its first await when it is called, and every await   *)
(* is a point where another call runs: an iteration of _findAccounts is the *)
(* call of _findAccount with el.account as it is then, and, when the        *)
(* queries have resolved, the assignment to el.account.                     *)

\* an iteration of _findAccounts up to the await: _makeAccountPath on
\* el.account, then the queries are on their way
FindLineQuery(c) ==
    /\ c \in DOMAIN calls
    /\ calls[c].pc = "find"
    /\ calls[c].k <= Len(LinesOf(entries[calls[c].entry]))
    /\ LET e == calls[c].entry
           el == LinesOf(entries[e])[calls[c].k]
           pathErr == IF el.dbAcc # <<>> THEN "Account name should be string"
                      ELSE MakeAccountPathError(el.account)
       IN  IF pathErr # NoErr
           THEN /\ calls' = Fail(c, pathErr)
                /\ ret' = Returned("commit", <<e>>, pathErr)
           ELSE /\ calls' = [calls EXCEPT ![c].pc = "lookup"]
                /\ UNCHANGED ret
    /\ UNCHANGED <<store, entries>>

\* the rest of the iteration: the queries have resolved, el.account = dbAcc
FindLineAssign(c) ==
    /\ c \in DOMAIN calls
    /\ calls[c].pc = "lookup"
    /\ LET e == calls[c].entry
           k == calls[c].k
           el == LinesOf(entries[e])[k]
       IN  \E dbAcc \in FindAccount(el.account) :
           IF dbAcc = NullId
           THEN /\ calls' = Fail(c, "Account not found on DB")
                /\ ret' = Returned("commit", <<e>>, "Account not found on DB")
                /\ UNCHANGED entries
           ELSE /\ entries' = [entries EXCEPT ![e] = WithLine(@, k,
                       [el EXCEPT !.dbAcc = <<dbAcc, accounts[dbAcc].currencyId,
                                              currencies[accounts[dbAcc].currencyId].exchangeRate>>])]
                /\ calls' = [calls EXCEPT ![c].pc = "find", ![c].k = k + 1]
                /\ UNCHANGED ret
    /\ UNCHANGED store

\* one draft on the accounts 'a' and 'aa' (which does not exist) is built, and
\* commit() is called on it up to MaxCommits times, at any time
NextOverlap ==
    \/ /\ entries = <<>>
       /\ Entry
    \/ \E direction \in Directions, account \in RetryLineAccounts, amount \in LineAmounts :
          /\ calls = <<>>
          /\ entries # <<>>
          /\ Len(LinesOf(entries[Len(entries)])) < MaxLines
          /\ DebitCredit(Len(entries), direction, account, amount, NoMeta, NoRate)
    \/ \E e \in DOMAIN entries :
          /\ Len(calls) < MaxCommits
          /\ CommitStart(e)
    \/ \E c \in DOMAIN calls : FindLineQuery(c)
    \/ \E c \in DOMAIN calls : FindLineAssign(c)
    \/ \E c \in DOMAIN calls : Validate(c)
    \/ \E c \in DOMAIN calls : InsertJournal(c)
    \/ \E c \in DOMAIN calls : \E i \in DOMAIN calls[c].transactions : InsertTransaction(c, i)
    \/ \E c \in DOMAIN calls : MarkCommitted(c)
    \/ \E c \in DOMAIN calls : SaveCurrency(c)

SpecOverlap == InitCheckpoint /\ [][NextOverlap]_vars

-----------------------------------------------------------------------------
(* commit() calls on different drafts that overlap                          *)

MaxDrafts == 2      \* Entry objects of one behaviour

\* the store of InitLedger("RUB") after
\* book.entry().debit('a:a', 1, null, 1).credit('a:a', 1, null, 1).commit():
\* the rate 1 of RUB is cached
InitInterleaved ==
    /\ currencies = <<[code |-> "USD", exchangeRate |-> NoRate],
                      [code |-> "RUB", exchangeRate |-> BN(1)]>>
    /\ accounts = <<[name |-> <<"a">>, fullName |-> <<"a">>, parentId |-> NullId, currencyId |-> 1],
                    [name |-> <<"a">>, fullName |-> <<"a", ":", "a">>, parentId |-> 1, currencyId |-> 2]>>
    /\ journals = 1
    /\ transactions =
          <<[amount |-> 1, credit |-> FALSE, accountId |-> 2, journalId |-> 1,
             meta |-> NoMeta, createdAt |-> 1, exchangeRate |-> BN(1)],
            [amount |-> 1, credit |-> TRUE, accountId |-> 2, journalId |-> 1,
             meta |-> NoMeta, createdAt |-> 1, exchangeRate |-> BN(1)]>>
    /\ balances = <<>>
    /\ entries = <<>>
    /\ calls = <<>>
    /\ ret = Returned("init", <<>>, NoErr)

\* up to MaxDrafts drafts with lines on 'a:a' are built, with a rate or
\* without, and then commit() is called once on each, at any time
NextInterleaved ==
    \/ /\ calls = <<>>
       /\ Len(entries) < MaxDrafts
       /\ Entry
    \/ \E direction \in Directions, exchangeRate \in BalanceLineRates :
          /\ calls = <<>>
          /\ entries # <<>>
          /\ Len(LinesOf(entries[Len(entries)])) < MaxLines
          /\ DebitCredit(Len(entries), direction, <<"a", ":", "a">>, 1, NoMeta, exchangeRate)
    \/ \E e \in DOMAIN entries :
          /\ \A c \in DOMAIN calls : calls[c].entry # e
          /\ CommitStart(e)
    \/ \E c \in DOMAIN calls : FindLine(c)
    \/ \E c \in DOMAIN calls : Validate(c)
    \/ \E c \in DOMAIN calls : InsertJournal(c)
    \/ \E c \in DOMAIN calls : \E i \in DOMAIN calls[c].transactions : InsertTransaction(c, i)
    \/ \E c \in DOMAIN calls : MarkCommitted(c)
    \/ \E c \in DOMAIN calls : SaveCurrency(c)

SpecInterleaved == InitInterleaved /\ [][NextInterleaved]_vars

-----------------------------------------------------------------------------
(* Claims about the commit protocol *)

\* the rows of the transactions table that belong to journal entry j
TransactionsOf(j) == {t \in Ids(transactions) : transactions[t].journalId = j}

\* sum of amount / exchangeRate over a set of transaction rows
RECURSIVE SumBase(_)
SumBase(ts) ==
    IF ts = {} THEN BN(0)
    ELSE LET t == CHOOSE x \in ts : TRUE
         IN  Plus(Div(BN(transactions[t].amount), transactions[t].exchangeRate),
                  SumBase(ts \ {t}))

\* C1: double-entry invariant. In every reachable state, for every persisted
\* JournalEntry, the sum of amount/exchangeRate over its debit transactions
\* minus that over its credit transactions is within NEAR_ZERO of zero.
C1_DoubleEntry ==
    \A j \in 1 .. journals :
        ~AbsGteNearZero(Minus(SumBase({t \in TransactionsOf(j) : ~transactions[t].credit}),
                              SumBase({t \in TransactionsOf(j) : transactions[t].credit})))

\* the messages of the three failures C2 names
PreWriteErrors == {"Account not found on DB", "Cannot find exchange rate", "Entry not balanced"}

\* C2: a commit() that fails with account not found, missing exchange rate or
\* entry not balanced leaves the store as it was when the call began: no
\* JournalEntry row, no Transaction row, no exchange rate changed.
C2_FailedCommitWritesNothing ==
    \A c \in DOMAIN calls :
        (calls[c].pc = "failed" /\ calls[c].err \in PreWriteErrors) =>
            store = calls[c].before

C2_Witness ==
    \E c \in DOMAIN calls :
        /\ calls[c].pc = "failed"
        /\ calls[c].err = "Entry not balanced"
        /\ journals >= 1
        /\ Len(LinesOf(entries[calls[c].entry])) = 2

\* C3: entry persistence is atomic for readers. In every state a reader can
\* observe, a JournalEntry row that a commit() has inserted is there together
\* with all the Transaction rows of that entry.
C3_AtomicPersist ==
    \A c \in DOMAIN calls :
        calls[c].journalId # NullId =>
            Cardinality(TransactionsOf(calls[c].journalId)) = Len(calls[c].transactions)

\* C6: committing twice fails. A committed entry stays committed; a commit()
\* called on a committed entry fails with "already committed" and writes
\* nothing, so no Entry object ever has two JournalEntry rows.
C6_CommitTwiceStep ==
    /\ \A e \in DOMAIN entries \cap DOMAIN entries' :
          entries[e].committed => entries'[e].committed
    /\ \A c \in DOMAIN calls' \ DOMAIN calls :
          entries[calls'[c].entry].committed =>
              /\ calls'[c].pc = "failed"
              /\ calls'[c].err = "This entry is already committed"
              /\ store' = store
    /\ \A c \in DOMAIN calls \cap DOMAIN calls' :
          calls[c].pc = "failed" => calls'[c] = calls[c]
    /\ \A e \in DOMAIN entries' :
          Cardinality({c \in DOMAIN calls' :
              calls'[c].entry = e /\ calls'[c].journalId # NullId}) <= 1

C6_CommitTwice == [][C6_CommitTwiceStep]_vars

C6_Witness ==
    \E c, d \in DOMAIN calls :
        /\ calls[c].entry = calls[d].entry
        /\ calls[c].pc = "done"
        /\ calls[d].pc = "failed"
        /\ calls[d].err = "This entry is already committed"
        /\ journals = 1

\* C7: exchange-rate resolution. When commit() has resolved its accounts, a
\* line on a base-currency account gets rate 1 whatever was supplied; any other
\* line gets the supplied rate, else the rate cached on its currency; if some
\* line has neither the commit fails with the missing-rate error; and every
\* Transaction row is inserted with the rate so resolved.
C7_RateOf(el) ==
    IF el.dbAcc[2] = 1 THEN BN(1)
    ELSE IF el.exchangeRate # NoRate THEN el.exchangeRate
    ELSE currencies[el.dbAcc[2]].exchangeRate

C7_ResolveRatesStep ==
    /\ \A c \in DOMAIN calls \cap DOMAIN calls' :
          (calls[c].pc = "find" /\ calls'[c].pc # "find"
              /\ calls[c].k > Len(LinesOf(entries[calls[c].entry]))) =>
             LET lines == LinesOf(entries[calls[c].entry])
             IN  IF \E k \in DOMAIN lines : C7_RateOf(lines[k]) = NoRate
                 THEN calls'[c].pc = "failed" /\ calls'[c].err = "Cannot find exchange rate"
                 ELSE /\ calls'[c].err \in {NoErr, "Entry not balanced"}
                      /\ calls'[c].pc = "create" =>
                            /\ Len(calls'[c].transactions) = Len(lines)
                            /\ \A k \in DOMAIN lines :
                                  calls'[c].transactions[k].exchangeRate = C7_RateOf(lines[k])
    /\ Len(transactions') > Len(transactions) =>
          \E c \in DOMAIN calls : \E i \in DOMAIN calls[c].transactions :
              /\ i \notin calls[c].inserted
              /\ i \in calls'[c].inserted
              /\ transactions'[Len(transactions')].exchangeRate = C7_RateOf(LinesOf(entries[calls[c].entry])[i])
              /\ transactions'[Len(transactions')].accountId = LinesOf(entries[calls[c].entry])[i].dbAcc[1]

C7_ResolveRates == [][C7_ResolveRatesStep]_vars

\* the rate of the last line of the entry on an account of currency cur
C8_LastRate(entry, cur) ==
    LET lines == LinesOf(entry)
        last == CHOOSE k \in DOMAIN lines :
                    /\ lines[k].dbAcc[2] = cur
                    /\ \A m \in DOMAIN lines : lines[m].dbAcc[2] = cur => m <= k
    IN  lines[last].exchangeRate

\* C8: after a commit() has completed successfully, every non-base currency
\* touched by a line of the entry has as cached rate the last rate used for it
\* in the entry (debits first, then credits), and the base currency's stored
\* rate is never anything but 1.
C8_RatesAfterCommit ==
    /\ currencies[1].exchangeRate \in {NoRate, BN(1)}
    /\ \A c \in DOMAIN calls :
          calls[c].pc = "done" =>
              \A k \in DOMAIN LinesOf(entries[calls[c].entry]) :
                  LET cur == LinesOf(entries[calls[c].entry])[k].dbAcc[2]
                  IN  cur # 1 =>
                        currencies[cur].exchangeRate = C8_LastRate(entries[calls[c].entry], cur)

-----------------------------------------------------------------------------
(* Claims about balance queries *)

\* the amounts of a set of transaction rows added up
RECURSIVE C4_SumAmounts(_)
C4_SumAmounts(ts) ==
    IF ts = {} THEN 0
    ELSE LET t == CHOOSE x \in ts : TRUE
         IN  transactions[t].amount + C4_SumAmounts(ts \ {t})

\* debits minus credits over the whole log of an account
C4_FullScan(a) ==
    C4_SumAmounts({t \in Ids(transactions) :
                      transactions[t].accountId = a /\ ~transactions[t].credit})
    - C4_SumAmounts({t \in Ids(transactions) :
                      transactions[t].accountId = a /\ transactions[t].credit})

\* C4: isolatedBalance(account) returns the sum of the amounts of all debit
\* transactions of the account minus the sum of the amounts of all its credit
\* transactions, whatever commits and balance queries came before: for every
\* account a balance() call visits, the sum _isolatedBalance returned equals
\* the full scan of the log.
C4_IsolatedBalanceStep ==
    \A account \in BalanceAccounts :
        (Balance(account) /\ ret'.err = NoErr) =>
            \A k \in DOMAIN ret'.iso :
                ret'.iso[k][2] = BN(C4_FullScan(ret'.iso[k][1]))

C4_IsolatedBalance == [][C4_IsolatedBalanceStep]_vars

C4_Witness ==
    /\ ret.op = "balance"
    /\ ret.err = NoErr
    /\ \E b1, b2 \in 1 .. Len(balances) :
          /\ b1 < b2
          /\ balances[b1].accountId = balances[b2].accountId
          /\ balances[b2].accountId = ret.account
          /\ balances[b2].transactionId = Len(transactions)
          /\ balances[b2].amount # balances[b1].amount

\* the ancestors of an account row, by parentId
RECURSIVE C5_Ancestors(_)
C5_Ancestors(i) ==
    IF accounts[i].parentId = NullId THEN {}
    ELSE {accounts[i].parentId} \cup C5_Ancestors(accounts[i].parentId)

\* isolated balance over cached rate, summed over a set of accounts
RECURSIVE C5_SumConverted(_)
C5_SumConverted(as) ==
    IF as = {} THEN BN(0)
    ELSE LET x == CHOOSE y \in as : TRUE
             own == IF accounts[x].currencyId = 1 THEN BN(C4_FullScan(x))
                    ELSE Div(BN(C4_FullScan(x)), currencies[accounts[x].currencyId].exchangeRate)
         IN  Plus(own, C5_SumConverted(as \ {x}))

\* C5: balance(account) is the sum, over the account and every descendant of
\* it, of the account's isolated balance divided by the cached rate of its
\* currency (by exactly 1 for the base currency); rates stored on the
\* transactions are not used.
C5_AggregateBalanceStep ==
    \A account \in BalanceAccounts :
        (Balance(account) /\ ret'.err = NoErr) =>
            ret'.val = C5_SumConverted({ret'.account} \cup
                           {i \in Ids(accounts) : ret'.account \in C5_Ancestors(i)})

C5_AggregateBalance == [][C5_AggregateBalanceStep]_vars

-----------------------------------------------------------------------------
(* Claims about the chart of accounts *)

\* C9: path resolution round trip. In every reachable state, resolving the
\* fullName of any created account returns exactly that account, and resolving
\* any other account string returns either not-found or the account at exactly
\* that path, never a different account.
C9_ResolveRoundTrip ==
    /\ \A i \in Ids(accounts) :
          /\ MakeAccountPathError(accounts[i].fullName) = NoErr
          /\ FindAccount(accounts[i].fullName) = {i}
    /\ \A p \in ChartNames \ {<<>>} :
          \A r \in FindAccount(p) : r # NullId => accounts[r].fullName = p

\* C10: createAccount. A call that throws creates no account row; a call that
\* succeeds adds one row, and for a multi-segment account string the string
\* minus its last segment resolved before the call, the last segment did not
\* exist under that parent, the new row's parentId is the resolved parent and
\* its fullName is the parent's fullName + ':' + the last segment.
C10_CreateAccountStep ==
    ret'.op = "createAccount" =>
        LET name == ret'.arg[1]
            segs == Split(name)
            last == segs[Len(segs)]
            parent == Join(SubSeq(segs, 1, Len(segs) - 1))
            new == accounts'[Len(accounts')]
        IN  IF ret'.err # NoErr THEN accounts' = accounts
            ELSE /\ Len(accounts') = Len(accounts) + 1
                 /\ SubSeq(accounts', 1, Len(accounts)) = accounts
                 /\ Len(segs) > 1 =>
                       /\ MakeAccountPathError(parent) = NoErr
                       /\ new.parentId # NullId
                       /\ new.parentId \in FindAccount(parent)
                       /\ FindOneAccount(last, new.parentId) = {}
                       /\ new.fullName = accounts[new.parentId].fullName \o <<":">> \o last

C10_CreateAccount == [][C10_CreateAccountStep]_vars

-----------------------------------------------------------------------------
(* Claims about the chart under overlapping calls *)

\* C11: account uniqueness. In every reachable state, overlapping
\* createAccount calls included, no two accounts rows have the same name and
\* parentId, and no two have the same fullName.
C11_UniqueAccounts ==
    \A i, j \in Ids(accounts) :
        i # j =>
            /\ ~(accounts[i].name = accounts[j].name /\ accounts[i].parentId = accounts[j].parentId)
            /\ accounts[i].fullName # accounts[j].fullName

-----------------------------------------------------------------------------
(* Claims about the queries *)

\* the transactions C12 says ledger() selects: those of the resolved account
\* and of its descendants (by parentId), created within [start, end], whose
\* meta has every key/value of the filter
C12_Selected(account, meta, start, end) ==
    {t \in Ids(transactions) :
        /\ \/ transactions[t].accountId = account
           \/ account \in C5_Ancestors(transactions[t].accountId)
        /\ start <= transactions[t].createdAt
        /\ transactions[t].createdAt <= end
        /\ \A kv \in meta : kv \in transactions[t].meta}

\* C12: ledger(accountPath, metaFilter, options) returns exactly the
\* transactions of the resolved account and its descendants that were created
\* within [startDate, endDate] and match the meta filter: none from outside
\* the subtree, and without pagination none that matches is left out.  Stated
\* of every state a ledger() call has just returned in (a call changes nothing
\* in the store, so the rows it read are the rows of that state).
C12_Ledger ==
    (ret.op = "ledger" /\ ret.err = NoErr) =>
        LET meta == ret.arg[2]
            start == ret.arg[3]
            end == IF ret.arg[4] = NoDate THEN journals ELSE ret.arg[4]
            selected == C12_Selected(ret.account, meta, start, end)
        IN  /\ Range(ret.val) \subseteq selected
            /\ (ret.arg[5] = 0 /\ ret.arg[6] = NoLimit) => Range(ret.val) = selected

\* the raw amounts of the transactions in one direction on accounts of one
\* currency, created within [start, end], summed
RECURSIVE C13_Raw(_)
C13_Raw(ts) ==
    IF ts = {} THEN 0
    ELSE LET t == CHOOSE x \in ts : TRUE
         IN  transactions[t].amount + C13_Raw(ts \ {t})

C13_Figure(cur, start, end) ==
    LET inWindow == {t \in Ids(transactions) :
                        /\ accounts[transactions[t].accountId].currencyId = cur
                        /\ transactions[t].createdAt \in start .. end}
    IN  C13_Raw({t \in inWindow : ~transactions[t].credit})
        - C13_Raw({t \in inWindow : transactions[t].credit})

RECURSIVE C13_Base(_, _, _)
C13_Base(curs, start, end) ==
    IF curs = {} THEN BN(0)
    ELSE LET cur == CHOOSE x \in curs : TRUE
         IN  Plus(Div(BN(C13_Figure(cur, start, end)), currencies[cur].exchangeRate),
                  C13_Base(curs \ {cur}, start, end))

C14_SameCurrencyEntries ==
    \A j \in 1 .. journals :
        \A t, u \in TransactionsOf(j) :
            accounts[transactions[t].accountId].currencyId
                = accounts[transactions[u].accountId].currencyId

\* C14: tradingBalance() shows a base figure of zero if only same-currency
\* entries were posted, whatever other currencies and accounts exist.  Stated
\* of every state a tradingBalance() call without a date window has just
\* returned in.
C14_ZeroBase ==
    (ret.op = "tradingBalance" /\ ret.err = NoErr /\ ret.arg = <<NoDate, NoDate>>
        /\ C14_SameCurrencyEntries) =>
            ret.base = BN(0)

\* what balance() returns for the account row id in the current state
C15_BalanceOf(id) ==
    BalanceLoop(<<id>> \o FindSubaccounts(id), 1, BN(0), <<>>, balances).total

RECURSIVE C15_SumOfChildren(_)
C15_SumOfChildren(children) ==
    IF children = {} THEN BN(0)
    ELSE LET child == CHOOSE x \in children : TRUE
         IN  Plus(C15_BalanceOf(child), C15_SumOfChildren(children \ {child}))

\* C15: aggregate balance additivity. For every account that has no
\* transactions of its own, balance(parent) equals the sum of balance(child)
\* over its direct children.  Stated of every state a balance() call has just
\* returned in, for the account the call resolved.
C15_Additive ==
    (ret.op = "balance" /\ ret.err = NoErr
        /\ \A t \in Ids(transactions) : transactions[t].accountId # ret.account) =>
            ret.val = C15_SumOfChildren({i \in Ids(accounts) : accounts[i].parentId = ret.account})

\* the transactionId of the Balance row _isolatedBalance would load for an
\* account from the table bal, 0 when there is none
C16_Checkpoint(account, bal) ==
    LET cached == {b \in 1 .. Len(bal) : bal[b].accountId = account}
    IN  IF cached = {} THEN 0
        ELSE bal[CHOOSE b \in cached : \A other \in cached : other <= b].transactionId

\* C16: balance checkpoint idempotence. A balance() call that follows a
\* balance() call on the same account with no write between them gets the
\* same isolated balances and the same value and creates no Balance row; and
\* whenever a call adds a Balance row, it has folded a transaction newer than
\* the checkpoint it started from.
C16_IdempotentStep ==
    /\ (ret.op = "balance" /\ ret.err = NoErr /\ ret'.op = "balance" /\ ret'.err = NoErr
            /\ ret'.account = ret.account) =>
          /\ ret'.iso = ret.iso
          /\ ret'.val = ret.val
          /\ balances' = balances
    /\ \A b \in Len(balances) + 1 .. Len(balances') :
          /\ balances'[b].transactionId
                 > C16_Checkpoint(balances'[b].accountId, SubSeq(balances', 1, b - 1))
          /\ transactions[balances'[b].transactionId].accountId = balances'[b].accountId

-----------------------------------------------------------------------------
(* Claims about overlapping balance() calls and commits *)

\* C17: every Balance row is a correct checkpoint. In every reachable state,
\* overlapping balance() calls and commits included, the amount of each
\* Balance row is the signed sum (debit +, credit -) of all the transactions
\* of its account with id <= the row's transactionId.
C17_CorrectCheckpoints ==
    \A b \in Ids(balances) :
        BN(balances[b].amount) =
            SumSigned({t \in Ids(transactions) :
                          /\ transactions[t].accountId = balances[b].accountId
                          /\ t <= balances[b].transactionId})


\* the balances table after the rows with the ids in deleted are deleted
RECURSIVE C18_Without(_, _)
C18_Without(bal, deleted) ==
    IF bal = <<>> THEN <<>>
    ELSE LET n == Len(bal)
             front == C18_Without(SubSeq(bal, 1, n - 1), deleted)
         IN  IF n \in deleted THEN front ELSE Append(front, bal[n])

\* C18: the Balance cache is not authoritative. In every reachable state, for
\* every subset of the Balance rows and every account, the next
\* _isolatedBalance of the account, and the next balance of the account with
\* its subaccounts, return the same value after the subset is deleted as they
\* return with all the rows in place.
C18_NotAuthoritative ==
    \A deleted \in SUBSET Ids(balances) : \A account \in Ids(accounts) :
        LET kept == C18_Without(balances, deleted)
            accs == <<account>> \o FindSubaccounts(account)
        IN  /\ IsolatedBalance(account, kept).sum = IsolatedBalance(account, balances).sum
            /\ BalanceLoop(accs, 1, BN(0), <<>>, kept).total
                   = BalanceLoop(accs, 1, BN(0), <<>>, balances).total

\* C23: a failure of the Balance checkpoint write is non-fatal. Every step in
\* which the Balance.create of a balance() call fails leaves the call running
\* or returned with the sum it has computed: the call does not fail.
C23_CheckpointFailureNotFatal ==
    [][\A c \in Readers :
          (c \in DOMAIN calls' /\ calls[c].pc = "write" /\ calls'[c] # calls[c]
              /\ balances' = balances)
              => calls'[c].pc # "failed"]_vars

\* C33: checkpoints are monotonic per account. In every reachable state,
\* overlapping balance() calls and commits included, of any two Balance rows
\* of one account the row created later (higher Balance id) has a
\* transactionId greater than or equal to that of the row created earlier, so
\* the row with the highest id has the highest checkpoint.
C33_MonotonicCheckpoints ==
    \A b1, b2 \in Ids(balances) :
        (b1 < b2 /\ balances[b1].accountId = balances[b2].accountId)
            => balances[b1].transactionId <= balances[b2].transactionId

-----------------------------------------------------------------------------
(* Claims about a commit() that fails on a missing account *)

\* every line of the draft holds its account path string
C19_Unresolved(entry) ==
    \A k \in 1 .. Len(LinesOf(entry)) : LinesOf(entry)[k].dbAcc = <<>>

\* C19: no partial resolution is retained. A step in which a commit() fails
\* because the account path of a line does not resolve leaves every line of
\* the draft holding its account path string, as before the call; and a
\* commit() of a draft that an earlier commit() left unfinished for a missing
\* account does not fail on a line that no longer holds a string.
C19_NoPartialResolution ==
    [][\A c \in DOMAIN calls :
          (c \in DOMAIN calls' /\ calls[c].pc = "find" /\ calls'[c].pc = "failed")
              => /\ calls'[c].err = "Account not found on DB"
                        => C19_Unresolved(entries'[calls[c].entry])
                 /\ calls'[c].err # "Account name should be string"]_vars

-----------------------------------------------------------------------------
(* Claims about the cached exchange rates *)

\* the journalEntries row of the commit() call c and a transactions row for
\* each of its lines are in the store
C20_Persisted(c) ==
    /\ calls[c].journalId # NullId
    /\ calls[c].journalId <= journals
    /\ \A i \in DOMAIN calls[c].transactions :
          \E t \in Ids(transactions) :
              /\ transactions[t].journalId = calls[c].journalId
              /\ transactions[t].accountId = calls[c].transactions[i].accountId
              /\ transactions[t].amount = calls[c].transactions[i].amount
              /\ transactions[t].credit = calls[c].transactions[i].credit

\* the currencies of the accounts of the persisted lines of the call c
C20_Touched(c) ==
    {accounts[transactions[t].accountId].currencyId :
        t \in {x \in Ids(transactions) : transactions[x].journalId = calls[c].journalId}}

-----------------------------------------------------------------------------
(* Claims about debit and credit *)

\* the arguments of a debit or credit call are those of a valid line: the
\* amount is positive and the exchange rate, if supplied, is a positive number
C21_ValidLine(amount, exchangeRate) ==
    /\ amount > 0
    /\ exchangeRate # NoRate => ~IsNaN(exchangeRate) /\ exchangeRate[1] > 0

\* C21: debit and credit add a line to the draft only if its amount is a
\* positive integer and its exchange rate, if supplied, is a positive non-NaN
\* number: a call with a supplied rate of 0, a negative rate or a NaN rate is
\* rejected, a rejected call leaves the drafts unchanged, and an accepted call
\* adds the line.
C21_AddLine ==
    [][(ret' # ret /\ ret'.op \in Directions)
          => LET valid == C21_ValidLine(ret'.arg[3], ret'.arg[4])
             IN  /\ ret'.err = NoErr <=> valid
                 /\ ~valid => entries' = entries
                 /\ valid => Len(LinesOf(entries'[ret'.arg[1]]))
                                 = Len(LinesOf(entries[ret'.arg[1]])) + 1]_vars

-----------------------------------------------------------------------------
(* Claims about the exchange rate a commit() falls back on *)

\* the position of the line at which _setExchangeRates throws: the first line
\* on a foreign-currency account with no rate of its own and no cached rate
C22_ThrowingLine(entry) ==
    LET lines == LinesOf(entry)
        throwing == {k \in 1 .. Len(lines) :
                        /\ lines[k].dbAcc[2] # 1
                        /\ Falsy(lines[k].exchangeRate)
                        /\ Falsy(lines[k].dbAcc[3])}
    IN  CHOOSE k \in throwing : \A j \in throwing : k <= j

\* C22: MissingExchangeRate occurs only if the currency has never been used in
\* a persisted entry and the caller omits the rate. Every step in which a
\* commit() fails with 'Cannot find exchange rate' fails on a line whose rate
\* was omitted and whose currency is the currency of the account of no
\* persisted transaction, whatever happened before (a crash between the entry
\* write and the rate update included).
C22_MissingRate ==
    [][\A c \in DOMAIN calls :
          (/\ c \in DOMAIN calls'
           /\ calls[c].pc = "find"
           /\ calls'[c].pc = "failed"
           /\ calls'[c].err = "Cannot find exchange rate")
              => LET el == LinesOf(entries[calls[c].entry])[C22_ThrowingLine(entries[calls[c].entry])]
                 IN  /\ el.exchangeRate = NoRate
                     /\ \A t \in Ids(transactions) :
                           accounts[transactions[t].accountId].currencyId # el.dbAcc[2]]_vars

-----------------------------------------------------------------------------
(* Claims about what the operations of the book leave alone *)

C25_Subtree(a) == {a} \cup {i \in Ids(accounts) : a \in C5_Ancestors(i)}

\* C25: query paths are pure reads except for the checkpoint write. A step of
\* ledger or tradingBalance changes no row of any table; a step of balance
\* changes no row of currencies, accounts, journalEntries and transactions,
\* keeps every Balance row there is as it is, and every Balance row it adds is
\* a row of an account in the subtree of the queried account.
C25_PureReads ==
    [][ret' # ret =>
          /\ ret'.op \in {"ledger", "tradingBalance"} => UNCHANGED store
          /\ (ret'.op = "balance" /\ ret'.err = NoErr) =>
                /\ UNCHANGED <<currencies, accounts, journals, transactions>>
                /\ Len(balances') >= Len(balances)
                /\ \A b \in Ids(balances) : balances'[b] = balances[b]
                /\ \A b \in Ids(balances') \ Ids(balances) :
                      balances'[b].accountId \in C25_Subtree(ret'.account)]_vars

-----------------------------------------------------------------------------
(* Claims about the accounts below an account *)

\* the accounts reachable from account a by following parentId links downward
C26_Descendants(a) == C25_Subtree(a) \ {a}

\* the ids in a sequence of ids
C26_SetOf(seq) == {seq[k] : k \in 1 .. Len(seq)}

\* C26: the subtree selected by prefix match equals the tree descendants. In
\* every reachable state and for every account A, the accounts _findSubaccounts
\* selects for A are exactly the accounts reachable from A by following
\* parentId links downward, A excluded, and so are the accounts whose fullName
\* begins with A.fullName + ':'; and the accounts a balance() call has summed
\* are the queried account and exactly those.
C26_PrefixIsSubtree ==
    /\ \A a \in Ids(accounts) : C26_SetOf(FindSubaccounts(a)) = C26_Descendants(a)
    /\ \A a \in Ids(accounts) :
          {i \in Ids(accounts) :
              StartsWith(accounts[i].fullName, accounts[a].fullName \o <<":">>)}
              = C26_Descendants(a)
    /\ (ret.op = "balance" /\ ret.err = NoErr)
          => {ret.iso[k][1] : k \in 1 .. Len(ret.iso)} = C25_Subtree(ret.account)

-----------------------------------------------------------------------------
(* Claims about the order and the pages of ledger() *)

\* the rows a ledger() call that has returned ret selects before it sorts and
\* cuts them
C27_Selected ==
    {t \in Ids(transactions) :
        /\ transactions[t].accountId \in {ret.account} \cup Range(FindSubaccounts(ret.account))
        /\ ret.arg[3] <= transactions[t].createdAt
        /\ transactions[t].createdAt <= (IF ret.arg[4] = NoDate THEN journals ELSE ret.arg[4])
        /\ MetaMatches(ret.arg[2], transactions[t].meta)}

\* C27: ledger ordering and pagination. The records a ledger() call returns
\* are ordered by creation time, newest first by default and oldest first when
\* order is 'asc'; with offset o and a limit L given (integers >= 0) they are
\* the records at the positions o .. o+L-1 of the ordered list of the selected
\* rows, so there are never more than L of them.
C27_Pagination ==
    (ret.op = "ledger" /\ ret.err = NoErr) =>
        LET o == ret.arg[5]
            L == ret.arg[6]
            ord == IF ret.arg[7] = "asc" THEN "ASC" ELSE "DESC"
        IN  /\ \E s \in OrderedBy(Range(ret.val), ord) : s = ret.val
            /\ L # NoLimit =>
                  /\ Len(ret.val) <= L
                  /\ \E s \in OrderedBy(C27_Selected, ord) :
                        ret.val = SubSeq(s, o + 1, IF o + L > Len(s) THEN Len(s) ELSE o + L)

-----------------------------------------------------------------------------
(* Claims about the order of checks and store accesses *)

\* the messages with which an operation rejects a malformed argument
C28_InvalidInput ==
    {"No currency code provided", "Code 10 chars max",
     "Name not specified", "Name should be <= 255 chars",
     "Name should contain alphanumeric chars and semi-colons as delimeters of account names",
     "Account name cannot be > 255 chars",
     "options.startDate should go before options.endDate",
     "options.offset should be integer number >= 0",
     "options.limit should be integer number >= 0"}

\* C28: InvalidInput is caught before any store access. Whenever
\* createCurrency, createAccount, ledger or tradingBalance has rejected a call
\* because of a malformed argument, the call has sent no statement to the
\* store.
C28_ChecksBeforeStore ==
    (ret.op \in {"createCurrency", "createAccount", "ledger", "tradingBalance"}
        /\ ret.err \in C28_InvalidInput)
        => QueriesBeforeThrow(ret.op, ret.arg, ret.err) = 0

-----------------------------------------------------------------------------
(* Claims about commit() calls that overlap *)

\* the commit() calls on draft e that have created a journalEntries row
C29_Persisting(e) ==
    {c \in DOMAIN calls : calls[c].entry = e /\ calls[c].journalId # NullId}

\* C29: an entry is persisted at most once under any interleaving. However
\* the commit() calls on one draft overlap, at most one of them creates a
\* journalEntries row, and the transactions rows of the draft are the rows of
\* one set: one row for each line.
C29_PersistedOnce ==
    \A e \in DOMAIN entries :
        /\ Cardinality(C29_Persisting(e)) <= 1
        /\ Cardinality({t \in Ids(transactions) :
               \E c \in C29_Persisting(e) : transactions[t].journalId = calls[c].journalId})
              <= Len(LinesOf(entries[e]))

-----------------------------------------------------------------------------
(* Claims about the rows of a persisted entry *)

\* C30: every persisted JournalEntry owns at least one debit transaction and
\* at least one credit transaction. When a commit() has returned without an
\* error, the journalEntries row it created has a debit row and a credit row
\* in transactions, and no commit() creates a journalEntries row for a draft
\* with no lines.
C30_DebitAndCredit ==
    \A c \in DOMAIN calls :
        /\ calls[c].pc = "done" =>
              /\ \E t \in Ids(transactions) :
                    transactions[t].journalId = calls[c].journalId /\ ~transactions[t].credit
              /\ \E t \in Ids(transactions) :
                    transactions[t].journalId = calls[c].journalId /\ transactions[t].credit
        /\ calls[c].journalId # NullId => LinesOf(entries[calls[c].entry]) # <<>>

-----------------------------------------------------------------------------
(* Claims about the rates balance() converts with *)

\* C31: balance never divides by a missing rate. In every step in which a
\* balance() call returns, each account it has summed that is not in the base
\* currency has a cached exchange rate that is not null, and the value
\* returned is a defined number; also for an account of a currency that no
\* committed entry has used yet.
C31_DefinedBalance ==
    [][(ret' # ret /\ ret'.op = "balance" /\ ret'.err = NoErr)
          => /\ \A k \in 1 .. Len(ret'.iso) :
                   accounts[ret'.iso[k][1]].currencyId # 1
                      => currencies[accounts[ret'.iso[k][1]].currencyId].exchangeRate # NoRate
             /\ ~IsNaN(ret'.val)]_vars

-----------------------------------------------------------------------------
(* Claims about commit() calls on different drafts that overlap *)

\* the transactions on accounts of currency cur
C32_Of(cur) ==
    {t \in Ids(transactions) : accounts[transactions[t].accountId].currencyId = cur}

\* C32: no lost rate update under interleaved commits. Whenever every
\* commit() that was started has finished, the cached exchange rate of each
\* non-base currency that has transactions is the rate stored on the
\* transaction with the highest id among the transactions on accounts of that
\* currency.
C32_NoLostRate ==
    (calls # <<>> /\ Quiet) =>
        \A cur \in Ids(currencies) :
            (cur # 1 /\ C32_Of(cur) # {})
                => currencies[cur].exchangeRate = transactions[MaxOf(C32_Of(cur))].exchangeRate

====
